---- MODULE Spec2Model ----
(***************************************************************************)
(* Kongnitive EdgeMCP: the scripting runtime's task/VM lifecycle           *)
(* (main/lua_runtime.c), the snippet result capture of lua_runtime_exec,   *)
(* and the JSON-RPC dispatcher with the tool registry (main/jsonrpc.c,     *)
(* main/mcp_server.c, main/mcp_protocol.c, main/mcp_tools.c).              *)
(*                                                                         *)
(* The specifications sharing the module:                                  *)
(*   Spec       the runtime lifecycle under preemptive scheduling:         *)
(*              app_main, the two httpd server tasks, the lua_tasks;       *)
(*   SpecExec   the evaluation stack across lua_runtime_exec calls;        *)
(*   SpecMsg    mcp_server_process_message, one message at a time;         *)
(*   SpecOta    the OTA update sessions (main/mcp_ota.c);                  *)
(*   SpecStore  the script store; SpecCodec and SpecBind the serializer    *)
(*              and lua_bind_dependency (main/mcp_tools.c);                *)
(*   SpecLog    the log capture, SpecQuery sys_get_logs (main/mcp_log.c);  *)
(*   SpecBus    the I2C bindings called by concurrent snippets.            *)
(***************************************************************************)
EXTENDS Integers, Sequences, FiniteSets, TLC

\* ------------------------------------------------------------------------
\* Bounds of the model
\* ------------------------------------------------------------------------

\* ota_task instances xTaskCreate can hand out in one boot.
MaxOtaTasks == 2

\* sys_ota_push calls issued in all.
MaxPushes == 2

\* Restarts of the device.
MaxBoots == 1

\* Chunks of OTA_BUF_SIZE bytes a firmware image is streamed in.
MaxChunks == 2

\* Pieces (pushed contents) a stored script is made of.
MaxPieces == 2

\* Pushes of the entry point while the runtime is up.
MaxEdits == 1

\* Characters of a string given to the serializer.
MaxStr == 2

\* Items of an array or members of an object given to the serializer.
MaxItems == 2

\* Slots of s_log_ring (CONFIG_MCP_LOG_BUFFER_SIZE / 64 on the device).
LOG_MAX_LINES == 4

\* Log calls made.
MaxLogs == 4

\* VM instances luaL_newstate can hand out before it reports failure.
MaxVMs == 3

\* lua_task instances xTaskCreate can hand out before it reports failure.
MaxTasks == 3

\* Tool calls the transport contexts issue in all.
MaxCalls == 2

\* ------------------------------------------------------------------------
\* State
\* ------------------------------------------------------------------------

VARIABLES
    \* main/lua_runtime.c globals
    L,                 \* static lua_State *L (0 is NULL, else a VM id)
    lua_task_handle,   \* static TaskHandle_t lua_task_handle (0 is NULL)
    lua_task_running,  \* static volatile bool lua_task_running
    \* the heap and the scheduler
    vm,                \* VM id -> "unused" | "live" | "closed"
    task,              \* task id -> "unused" | "created" | "running" | "deleted"
    taskVM,            \* task id -> the lua_State* luaL_dofile was called with
    crashed,           \* the firmware hit undefined behaviour and panicked
    \* the calling contexts (app_main, the two httpd tasks)
    pc,                \* context -> position in the runtime API
    op,                \* context -> the API function in progress
    hnd,               \* context -> lua_task_handle as read by the if ()
    was_running,       \* context -> lua_runtime_exec's local was_running
    vmIn,              \* context -> the lua_State* luaL_dostring runs in
    status,            \* context -> the status lua_runtime_exec will return
    ret,               \* context -> what the last API call returned
    calls,             \* tool calls issued so far by the transports
    \* observations made when a call was issued
    midExec,           \* context -> a lua_task was inside luaL_dofile
    activeAtCall,      \* context -> a lua_task was created or running
    \* the evaluation stack of the VM across lua_runtime_exec calls (SpecExec)
    stack, snippet, result, execRet,
    \* the dispatcher (SpecMsg)
    initialized, msg, response, invoked, device,
    \* main/mcp_ota.c globals (SpecOta)
    s_ota_state,        \* static ota_state_t s_ota_state
    s_ota_progress_pct, \* static int s_ota_progress_pct
    s_ota_message,      \* static char s_ota_message[128]
    \* the ota_task instances, the firmware slots and the confirm timer
    ota,               \* task id -> position and locals of that ota_task
    img,               \* slot -> esp_ota_img_states_t of the image in it
    running,           \* the slot the firmware runs from
    boot,              \* the slot marked as next-boot target
    timer,             \* the ota_confirm one-shot timer
    boots,             \* restarts of the device so far
    pushes,            \* sys_ota_push calls so far
    pushRet,           \* what the last sys_ota_push returned
    \* the script store (SpecStore) and what each lua_task loaded
    store,             \* script name -> the file: whether it exists, its bytes
    got,               \* the last store operation and what it returned
    edits,             \* pushes of the entry point issued under Spec
    taskScript,        \* task id -> the main.lua bytes luaL_dofile loaded
    \* the serializer and lua_bind_dependency (SpecCodec, SpecBind)
    tree,              \* the value tree last given to serialize_cjson_to_lua
    lua,               \* what serialize_cjson_to_lua made of it
    bind,              \* the last lua_bind_dependency call and its outcome
    \* the log capture (SpecLog)
    s_log_ring,        \* index -> the entry stored there
    s_log_head,        \* next write index
    s_log_count,       \* entries stored
    s_log_mutex,       \* the task holding the log mutex, or "free"
    console,           \* the lines the original vprintf has printed
    lpc,               \* task -> where it is in the hook or in sys_get_logs
    line,              \* task -> the line it is logging
    logs,              \* log calls so far
    stored,            \* the entries written to the ring, in the order written
    query,             \* the last sys_get_logs call and what it returned
    \* main/lua_runtime.c I2C statics and the contexts inside the bindings (SpecBus)
    i2c_bus_handle,    \* static i2c_master_bus_handle_t i2c_bus_handle (0 is NULL)
    i2c_dev_cache,     \* index -> addr and handle of a cached device
    i2c_dev_count,     \* static int i2c_dev_count
    devs,              \* device handle -> "unused" | "live" | "removed"
    bus,               \* context -> where it is in an i2c binding, its locals
    busCalls           \* i2c bindings called so far

rtVars == <<L, lua_task_handle, lua_task_running, vm, task, taskVM, crashed,
            pc, op, hnd, was_running, vmIn, status, ret, calls,
            midExec, activeAtCall>>
exVars == <<stack, snippet, result, execRet>>
msgVars == <<initialized, msg, response, invoked, device>>
otaVars == <<s_ota_state, s_ota_progress_pct, s_ota_message, ota, img, running,
             boot, timer, boots, pushes, pushRet>>
stVars == <<store, got, edits, taskScript>>
toolVars == <<tree, lua, bind>>
logVars == <<s_log_ring, s_log_head, s_log_count, s_log_mutex, console, lpc, line, logs,
            stored, query>>
busVars == <<i2c_bus_handle, i2c_dev_cache, i2c_dev_count, devs, bus, busCalls>>
vars == <<rtVars, exVars, msgVars, otaVars, stVars, toolVars, logVars, busVars>>

NULL == 0
VMIds == 1..MaxVMs
TaskIds == 1..MaxTasks

\* app_main and the two server tasks: httpd_ssl_start and httpd_start each
\* run their handlers in a task of their own.
Transports == {"https", "http"}
Ctx == {"main"} \cup Transports

\* The sequences of at most n elements of S.
RECURSIVE SeqsOf(_, _)
SeqsOf(S, n) ==
    IF n = 0 THEN {<<>>}
    ELSE SeqsOf(S, n - 1) \cup {Append(q, x) : q \in {r \in SeqsOf(S, n - 1) : Len(r) = n - 1}, x \in S}

\* ------------------------------------------------------------------------
\* The scripting runtime: main/lua_runtime.c
\* ------------------------------------------------------------------------

\* What luaL_newstate can return: a VM never handed out before, or NULL.
create_vm ==
    {NULL} \cup {v \in VMIds : vm[v] = "unused" /\ \A w \in VMIds : vm[w] = "unused" => v <= w}

\* The task xTaskCreate can create, or NULL when it does not return pdPASS.
xTaskCreate ==
    {NULL} \cup {t \in TaskIds : task[t] = "unused" /\ \A u \in TaskIds : task[u] = "unused" => t <= u}

\* A lua_task that has been launched and has not left luaL_dofile yet.
ActiveTasks == {t \in TaskIds : task[t] \in {"created", "running"}}

\* The lua_tasks and the callers executing Lua code in VM v, and their number.
TasksInVM(v) == {t \in TaskIds : task[t] = "running" /\ taskVM[t] = v}

CallersInVM(v) == {c \in Ctx : pc[c] = "e_in_vm" /\ vmIn[c] = v}

InVM(v) == Cardinality(TasksInVM(v)) + Cardinality(CallersInVM(v))

\* An API call of context c returns r.
Return(c, r) ==
    /\ pc' = [pc EXCEPT ![c] = "idle"]
    /\ ret' = [ret EXCEPT ![c] = r]
    /\ op' = [op EXCEPT ![c] = "none"]
    /\ hnd' = [hnd EXCEPT ![c] = NULL]
    /\ was_running' = [was_running EXCEPT ![c] = FALSE]
    /\ vmIn' = [vmIn EXCEPT ![c] = NULL]
    /\ status' = [status EXCEPT ![c] = "none"]

\* A transport context receives a tools/call for lua_restart or lua_exec.
Call(c, o) ==
    /\ ~crashed
    /\ UNCHANGED <<busVars, exVars, msgVars, otaVars, stVars, toolVars, logVars>>
    /\ c \in Transports
    /\ pc[c] = "idle"
    /\ calls < MaxCalls
    /\ calls' = calls + 1
    /\ op' = [op EXCEPT ![c] = o]
    /\ pc' = [pc EXCEPT ![c] = IF o = "restart" THEN "r_check" ELSE "e_checkL"]
    /\ ret' = [ret EXCEPT ![c] = "none"]
    /\ midExec' = [midExec EXCEPT ![c] = \E t \in TaskIds : task[t] = "running"]
    /\ activeAtCall' = [activeAtCall EXCEPT ![c] = ActiveTasks # {}]
    /\ UNCHANGED <<L, lua_task_handle, lua_task_running, vm, task, taskVM, crashed,
                   hnd, was_running, vmIn, status>>

\* lua_runtime_init, called by app_main once the servers are up: the script
\* store is prepared (it may fail), then L = create_vm().
lua_runtime_init(c) ==
    /\ ~crashed
    /\ UNCHANGED <<busVars, exVars, msgVars, otaVars, stVars, toolVars, logVars>>
    /\ pc[c] = "m_init"
    /\ \/ /\ Return(c, "ESP_FAIL")
          /\ UNCHANGED <<L, vm>>
       \/ \E v \in create_vm :
            /\ L' = v
            /\ vm' = IF v = NULL THEN vm ELSE [vm EXCEPT ![v] = "live"]
            /\ IF v = NULL
               THEN Return(c, "ESP_FAIL")
               ELSE /\ pc' = [pc EXCEPT ![c] = "s_check"]
                    /\ UNCHANGED <<ret, op, hnd, was_running, vmIn, status>>
    /\ UNCHANGED <<lua_task_handle, lua_task_running, task, taskVM, crashed,
                   calls, midExec, activeAtCall>>

\* What the caller of lua_runtime_start does with its status r: restart
\* returns it, exec drops it and returns its own, app_main drops it.
StartReturns(c, r) ==
    Return(c, IF op[c] = "exec" THEN status[c] ELSE r)

\* lua_runtime_start: if (lua_task_handle) return ESP_ERR_INVALID_STATE.
start_check(c) ==
    /\ ~crashed
    /\ UNCHANGED <<busVars, exVars, msgVars, otaVars, stVars, toolVars, logVars>>
    /\ pc[c] = "s_check"
    /\ IF lua_task_handle # NULL
       THEN StartReturns(c, "ESP_ERR_INVALID_STATE")
       ELSE /\ pc' = [pc EXCEPT ![c] = "s_create"]
            /\ UNCHANGED <<ret, op, hnd, was_running, vmIn, status>>
    /\ UNCHANGED <<L, lua_task_handle, lua_task_running, vm, task, taskVM, crashed,
                   calls, midExec, activeAtCall>>

\* lua_runtime_start: xTaskCreate(lua_task, ..., &lua_task_handle).
start_create(c) ==
    /\ ~crashed
    /\ UNCHANGED <<busVars, exVars, msgVars, otaVars, stVars, toolVars, logVars>>
    /\ pc[c] = "s_create"
    /\ \E t \in xTaskCreate :
         IF t = NULL
         THEN /\ StartReturns(c, "ESP_FAIL")
              /\ UNCHANGED <<task, lua_task_handle>>
         ELSE /\ task' = [task EXCEPT ![t] = "created"]
              /\ lua_task_handle' = t
              /\ StartReturns(c, "ESP_OK")
    /\ UNCHANGED <<L, lua_task_running, vm, taskVM, crashed,
                   calls, midExec, activeAtCall>>

\* vTaskDelete(lua_task_handle) in restart and exec. lua_task_handle is not
\* volatile: the argument is the value the if () read or a fresh load. NULL
\* deletes the calling task itself; a task already deleted is freed memory.
vTaskDelete(c, next) ==
    \E h \in {hnd[c], lua_task_handle} :
        /\ IF h = NULL
           THEN /\ pc' = [pc EXCEPT ![c] = "deleted"]
                /\ UNCHANGED <<task, crashed>>
           ELSE IF task[h] = "deleted"
           THEN /\ crashed' \in BOOLEAN
                /\ pc' = [pc EXCEPT ![c] = next]
                /\ UNCHANGED task
           ELSE /\ task' = [task EXCEPT ![h] = "deleted"]
                /\ pc' = [pc EXCEPT ![c] = next]
                /\ UNCHANGED crashed

\* lua_runtime_restart: if (lua_task_handle).
restart_check(c) ==
    /\ ~crashed
    /\ UNCHANGED <<busVars, exVars, msgVars, otaVars, stVars, toolVars, logVars>>
    /\ pc[c] = "r_check"
    /\ hnd' = [hnd EXCEPT ![c] = lua_task_handle]
    /\ pc' = [pc EXCEPT ![c] = IF lua_task_handle # NULL THEN "r_delete" ELSE "r_destroy"]
    /\ UNCHANGED <<L, lua_task_handle, lua_task_running, vm, task, taskVM, crashed,
                   op, was_running, vmIn, status, ret, calls,
                   midExec, activeAtCall>>

\* lua_runtime_restart: vTaskDelete(lua_task_handle).
restart_delete(c) ==
    /\ ~crashed
    /\ UNCHANGED <<busVars, exVars, msgVars, otaVars, stVars, toolVars, logVars>>
    /\ pc[c] = "r_delete"
    /\ vTaskDelete(c, "r_clear")
    /\ UNCHANGED <<L, lua_task_handle, lua_task_running, vm, taskVM,
                   op, hnd, was_running, vmIn, status, ret, calls,
                   midExec, activeAtCall>>

\* lua_runtime_restart: lua_task_handle = NULL; lua_task_running = false;
\* vTaskDelay(pdMS_TO_TICKS(100)), after which the caller runs on.
restart_clear(c) ==
    /\ ~crashed
    /\ UNCHANGED <<busVars, exVars, msgVars, otaVars, stVars, toolVars, logVars>>
    /\ pc[c] = "r_clear"
    /\ lua_task_handle' = NULL
    /\ lua_task_running' = FALSE
    /\ pc' = [pc EXCEPT ![c] = "r_destroy"]
    /\ UNCHANGED <<L, vm, task, taskVM, crashed,
                   op, hnd, was_running, vmIn, status, ret, calls,
                   midExec, activeAtCall>>

\* lua_runtime_restart: destroy_vm(L), which is lua_close(L) unless L is NULL.
\* Closing a state that is closed already is a double free.
restart_destroy(c) ==
    /\ ~crashed
    /\ UNCHANGED <<busVars, exVars, msgVars, otaVars, stVars, toolVars, logVars>>
    /\ pc[c] = "r_destroy"
    /\ IF L = NULL
       THEN UNCHANGED <<vm, crashed>>
       ELSE IF vm[L] = "closed"
       THEN /\ crashed' \in BOOLEAN
            /\ UNCHANGED vm
       ELSE /\ vm' = [vm EXCEPT ![L] = "closed"]
            /\ UNCHANGED crashed
    /\ pc' = [pc EXCEPT ![c] = "r_create"]
    /\ UNCHANGED <<L, lua_task_handle, lua_task_running, task, taskVM,
                   op, hnd, was_running, vmIn, status, ret, calls,
                   midExec, activeAtCall>>

\* lua_runtime_restart: L = create_vm(); if (!L) return ESP_FAIL; otherwise
\* return lua_runtime_start().
restart_create(c) ==
    /\ ~crashed
    /\ UNCHANGED <<busVars, exVars, msgVars, otaVars, stVars, toolVars, logVars>>
    /\ pc[c] = "r_create"
    /\ \E v \in create_vm :
         /\ L' = v
         /\ vm' = IF v = NULL THEN vm ELSE [vm EXCEPT ![v] = "live"]
         /\ IF v = NULL
            THEN Return(c, "ESP_FAIL")
            ELSE /\ pc' = [pc EXCEPT ![c] = "s_check"]
                 /\ UNCHANGED <<ret, op, hnd, was_running, vmIn, status>>
    /\ UNCHANGED <<lua_task_handle, lua_task_running, task, taskVM, crashed,
                   calls, midExec, activeAtCall>>

\* lua_runtime_exec: if (!L || !code || !result) return ESP_ERR_INVALID_ARG.
exec_checkL(c) ==
    /\ ~crashed
    /\ UNCHANGED <<busVars, exVars, msgVars, otaVars, stVars, toolVars, logVars>>
    /\ pc[c] = "e_checkL"
    /\ IF L = NULL
       THEN Return(c, "ESP_ERR_INVALID_ARG")
       ELSE /\ pc' = [pc EXCEPT ![c] = "e_check"]
            /\ UNCHANGED <<ret, op, hnd, was_running, vmIn, status>>
    /\ UNCHANGED <<L, lua_task_handle, lua_task_running, vm, task, taskVM, crashed,
                   calls, midExec, activeAtCall>>

\* lua_runtime_exec: bool was_running = false; if (lua_task_handle).
exec_check(c) ==
    /\ ~crashed
    /\ UNCHANGED <<busVars, exVars, msgVars, otaVars, stVars, toolVars, logVars>>
    /\ pc[c] = "e_check"
    /\ hnd' = [hnd EXCEPT ![c] = lua_task_handle]
    /\ pc' = [pc EXCEPT ![c] = IF lua_task_handle # NULL THEN "e_delete" ELSE "e_dostring"]
    /\ UNCHANGED <<L, lua_task_handle, lua_task_running, vm, task, taskVM, crashed,
                   op, was_running, vmIn, status, ret, calls,
                   midExec, activeAtCall>>

\* lua_runtime_exec: vTaskDelete(lua_task_handle).
exec_delete(c) ==
    /\ ~crashed
    /\ UNCHANGED <<busVars, exVars, msgVars, otaVars, stVars, toolVars, logVars>>
    /\ pc[c] = "e_delete"
    /\ vTaskDelete(c, "e_clear")
    /\ UNCHANGED <<L, lua_task_handle, lua_task_running, vm, taskVM,
                   op, hnd, was_running, vmIn, status, ret, calls,
                   midExec, activeAtCall>>

\* lua_runtime_exec: lua_task_handle = NULL; lua_task_running = false;
\* was_running = true; vTaskDelay(pdMS_TO_TICKS(50)).
exec_clear(c) ==
    /\ ~crashed
    /\ UNCHANGED <<busVars, exVars, msgVars, otaVars, stVars, toolVars, logVars>>
    /\ pc[c] = "e_clear"
    /\ lua_task_handle' = NULL
    /\ lua_task_running' = FALSE
    /\ was_running' = [was_running EXCEPT ![c] = TRUE]
    /\ pc' = [pc EXCEPT ![c] = "e_dostring"]
    /\ UNCHANGED <<L, vm, task, taskVM, crashed,
                   op, hnd, vmIn, status, ret, calls,
                   midExec, activeAtCall>>

\* lua_runtime_exec: luaL_dostring(L, code) is entered with the current L.
\* A NULL or closed state is a wild pointer for the interpreter.
exec_dostring(c) ==
    /\ ~crashed
    /\ UNCHANGED <<busVars, exVars, msgVars, otaVars, stVars, toolVars, logVars>>
    /\ pc[c] = "e_dostring"
    /\ IF L = NULL \/ vm[L] # "live"
       THEN /\ crashed' = TRUE
            /\ UNCHANGED <<pc, vmIn>>
       ELSE /\ vmIn' = [vmIn EXCEPT ![c] = L]
            /\ pc' = [pc EXCEPT ![c] = "e_in_vm"]
            /\ UNCHANGED crashed
    /\ UNCHANGED <<L, lua_task_handle, lua_task_running, vm, task, taskVM,
                   op, hnd, was_running, status, ret, calls,
                   midExec, activeAtCall>>

\* lua_runtime_exec: the snippet ends (LUA_OK or an error) once the binding
\* it called has returned, the result is captured; if (was_running)
\* lua_runtime_start(); return.
exec_finish(c) ==
    /\ ~crashed
    /\ UNCHANGED <<busVars, exVars, msgVars, otaVars, stVars, toolVars, logVars>>
    /\ pc[c] = "e_in_vm"
    /\ bus[c].pc = "idle"
    /\ \E st \in {"ESP_OK", "ESP_FAIL"} :
         IF was_running[c]
         THEN /\ status' = [status EXCEPT ![c] = st]
              /\ pc' = [pc EXCEPT ![c] = "s_check"]
              /\ vmIn' = [vmIn EXCEPT ![c] = NULL]
              /\ UNCHANGED <<ret, op, hnd, was_running>>
         ELSE Return(c, st)
    /\ UNCHANGED <<L, lua_task_handle, lua_task_running, vm, task, taskVM, crashed,
                   calls, midExec, activeAtCall>>

\* lua_task: lua_task_running = true; luaL_dofile(L, "/spiffs/main.lua") is
\* entered with the current L.
task_run(t) ==
    /\ ~crashed
    /\ UNCHANGED <<busVars, exVars, msgVars, otaVars, toolVars, logVars, store, got, edits>>
    /\ task[t] = "created"
    /\ lua_task_running' = TRUE
    /\ IF L = NULL \/ vm[L] # "live"
       THEN /\ crashed' = TRUE
            /\ UNCHANGED <<task, taskVM, taskScript>>
       ELSE /\ task' = [task EXCEPT ![t] = "running"]
            /\ taskVM' = [taskVM EXCEPT ![t] = L]
            /\ taskScript' = [taskScript EXCEPT ![t] = store["main.lua"]]
            /\ UNCHANGED crashed
    /\ UNCHANGED <<L, lua_task_handle, vm,
                   pc, op, hnd, was_running, vmIn, status, ret, calls,
                   midExec, activeAtCall>>

\* lua_task: main.lua returns or fails; lua_task_running = false;
\* lua_task_handle = NULL; vTaskDelete(NULL).
task_finish(t) ==
    /\ ~crashed
    /\ UNCHANGED <<busVars, exVars, msgVars, otaVars, stVars, toolVars, logVars>>
    /\ task[t] = "running"
    /\ lua_task_running' = FALSE
    /\ lua_task_handle' = NULL
    /\ task' = [task EXCEPT ![t] = "deleted"]
    /\ UNCHANGED <<L, vm, taskVM, crashed,
                   pc, op, hnd, was_running, vmIn, status, ret, calls,
                   midExec, activeAtCall>>

\* ------------------------------------------------------------------------
\* The script store: main/lua_runtime.c 714-756, main/mcp_tools.c 614-652
\* ------------------------------------------------------------------------

\* The script names used: two that SPIFFS stores, one longer than its
\* object-name limit, for which fopen fails.
ScriptNames == {"main.lua", "x.lua", "<name over 31 bytes>"}

\* The files of the store: those and the bindings document.
StoredNames == ScriptNames \cup {"bindings.lua"}

\* The bindings document write_default_script seeds the store with.
default_bindings_lua == [text |-> "<default bindings.lua>", len |-> 127]

\* The entry point write_default_script seeds the store with.
default_main_lua == [text |-> "<default main.lua>", len |-> 608]

\* A file of the store, and the absence of one.
File(b) == [exists |-> TRUE, bytes |-> b]

NoFile == [exists |-> FALSE, bytes |-> <<>>]

\* The store after write_default_script, no store operation made yet, no
\* lua_task having loaded the entry point.
StoreIdle ==
    /\ store = [n \in StoredNames |->
                   CASE n = "main.lua" -> File(<<default_main_lua>>)
                     [] n = "bindings.lua" -> File(<<default_bindings_lua>>)
                     [] OTHER -> NoFile]
    /\ got = [op |-> "none", name |-> "", ret |-> "none", text |-> <<>>, message |-> "",
              content |-> <<>>, append |-> FALSE, before |-> <<>>]
    /\ edits = 0
    /\ taskScript = [t \in 1..MaxTasks |-> NoFile]

\* char result_text[2048] of mcp_handle_tools_call, the buffer
\* lua_runtime_get_script reads the file into.
ResultBufferSize == 2048

\* The contents pushed: each a text and its length in bytes.
Contents ==
    {[text |-> "return 1", len |-> 8], [text |-> "return 2", len |-> 8],
     [text |-> "", len |-> 0], [text |-> "<script of 1200 bytes>", len |-> 1200]}

\* The bytes of a content: none for the empty string.
Bytes(c) == IF c.len = 0 THEN <<>> ELSE <<c>>

\* The first cap bytes of a file.
RECURSIVE Truncate(_, _)
Truncate(f, cap) ==
    IF f = <<>> \/ cap = 0 THEN <<>>
    ELSE IF Head(f).len <= cap
    THEN <<Head(f)>> \o Truncate(Tail(f), cap - Head(f).len)
    ELSE <<[text |-> Head(f).text, len |-> cap]>>

\* fopen(path, mode) succeeds: for reading when the file exists, for
\* writing when SPIFFS can store the name.
fopen(name, mode) ==
    IF mode = "r" THEN name \in StoredNames /\ store[name].exists
    ELSE name \in {"main.lua", "x.lua", "bindings.lua"}

\* The file fputs leaves under fopen(path, append ? "a" : "w").
Written(name, c, append) ==
    IF append THEN store[name].bytes \o Bytes(c) ELSE Bytes(c)

\* The record of a store operation.
StoreOp(o, n, r, txt, m, c, a, b) ==
    [op |-> o, name |-> n, ret |-> r, text |-> txt, message |-> m,
     content |-> c, append |-> a, before |-> b]

\* The name argument when it is missing or not a string.
NoName == "<no name>"

\* tool_lua_push_script / lua_runtime_push_script.
tool_lua_push_script(n, c, append) ==
    /\ UNCHANGED <<busVars, rtVars, exVars, msgVars, otaVars, toolVars, logVars, edits, taskScript>>
    /\ IF n = NoName
       THEN /\ got' = StoreOp("push", n, "ESP_ERR_INVALID_ARG", <<>>,
                              "Missing required parameters: name, content", <<>>, FALSE, <<>>)
            /\ UNCHANGED store
       ELSE IF ~fopen(n, IF append THEN "a" ELSE "w")
       THEN /\ got' = StoreOp("push", n, "ESP_FAIL", <<>>, "Failed to write script",
                              Bytes(c), append, <<>>)
            /\ UNCHANGED store
       ELSE /\ Len(Written(n, c, append)) <= MaxPieces
            /\ store' = [store EXCEPT ![n] = File(Written(n, c, append))]
            /\ got' = StoreOp("push", n, "ESP_OK", <<>>, "Script written", Bytes(c), append,
                              store[n].bytes)

\* A plausible slip: a missing file reads as an empty script.
tool_lua_get_script_lenient(n) ==
    /\ UNCHANGED <<busVars, rtVars, exVars, msgVars, otaVars, toolVars, logVars, store, edits, taskScript>>
    /\ got' = IF n = NoName
              THEN StoreOp("get", n, "ESP_ERR_INVALID_ARG", <<>>,
                           "Missing required parameter: name", <<>>, FALSE, <<>>)
              ELSE IF ~fopen(n, "r")
              THEN StoreOp("get", n, "ESP_OK", <<>>, "", <<>>, FALSE, <<>>)
              ELSE StoreOp("get", n, "ESP_OK", Truncate(store[n].bytes, ResultBufferSize - 1), "",
                           <<>>, FALSE, <<>>)

\* tool_lua_get_script / lua_runtime_get_script: the file's first
\* max_len - 1 bytes, or "Script not found".
tool_lua_get_script(n) ==
    /\ UNCHANGED <<busVars, rtVars, exVars, msgVars, otaVars, toolVars, logVars, store, edits, taskScript>>
    /\ got' = IF n = NoName
              THEN StoreOp("get", n, "ESP_ERR_INVALID_ARG", <<>>,
                           "Missing required parameter: name", <<>>, FALSE, <<>>)
              ELSE IF ~fopen(n, "r")
              THEN StoreOp("get", n, "ESP_ERR_NOT_FOUND", <<>>, "Script not found: " \o n,
                           <<>>, FALSE, <<>>)
              ELSE StoreOp("get", n, "ESP_OK", Truncate(store[n].bytes, ResultBufferSize - 1), "",
                           <<>>, FALSE, <<>>)

\* A plausible slip: the push of the entry point reloads it into the
\* tasks that are running it.
push_entry_point_reloading(c) ==
    /\ ~crashed
    /\ UNCHANGED <<busVars, rtVars, exVars, msgVars, otaVars, toolVars, logVars, got>>
    /\ c \in Transports
    /\ pc[c] = "idle"
    /\ edits < MaxEdits
    /\ edits' = edits + 1
    /\ store' = [store EXCEPT !["main.lua"] = File(<<[text |-> "return 1", len |-> 8]>>)]
    /\ taskScript' = [t \in TaskIds |->
                        IF task[t] = "running" THEN File(<<[text |-> "return 1", len |-> 8]>>)
                        ELSE taskScript[t]]

\* tool_lua_push_script of main.lua, called on a server while the runtime
\* is up: the file is replaced, nothing else.
push_entry_point(c) ==
    /\ ~crashed
    /\ UNCHANGED <<busVars, rtVars, exVars, msgVars, otaVars, toolVars, logVars, got, taskScript>>
    /\ c \in Transports
    /\ pc[c] = "idle"
    /\ edits < MaxEdits
    /\ edits' = edits + 1
    /\ store' = [store EXCEPT !["main.lua"] = File(<<[text |-> "return 1", len |-> 8]>>)]

\* ------------------------------------------------------------------------
\* Structured-value serialization: main/mcp_tools.c 387-543
\* ------------------------------------------------------------------------

\* The characters strings are made of: a letter, a backslash, a double
\* quote, a line feed and the control character 0x01.
Chars == {"a", "\\", "\"", "<LF>", "<01>"}

\* A run of 2040 letters, which alone nearly fills a 2048-byte buffer.
LongRun == "<2040 letters>"

Strings == SeqsOf(Chars, MaxStr)

\* cJSON numbers: valuedouble is i when half is FALSE, i + 1/2 otherwise.
Numbers == {[i |-> 1, half |-> FALSE], [i |-> 1, half |-> TRUE], [i |-> -1, half |-> TRUE]}

\* The nodes cJSON_Parse builds.
JNull == [k |-> "null"]

JBool(b) == [k |-> "bool", b |-> b]

JNumber(n) == [k |-> "number", n |-> n]

JString(s) == [k |-> "string", s |-> s]

JArray(items) == [k |-> "array", items |-> items]

\* An object keeps its members in document order, duplicate keys included;
\* each member is [string |-> key, val |-> value].
JObject(members) == [k |-> "object", items |-> members]

Leaves ==
    {JNull, JBool(TRUE), JBool(FALSE)}
        \cup {JNumber(n) : n \in Numbers}
        \cup {JString(s) : s \in Strings}

\* The leaves used inside arrays and objects.
InnerLeaves ==
    {JNull, JBool(TRUE), JNumber([i |-> 1, half |-> FALSE]), JString(<<"a">>)}

\* Member names: a plain one and one that needs escaping.
Keys == {<<"a">>, <<"\"">>}

Members(V) == {[string |-> key, val |-> v] : key \in Keys, v \in V}

\* The arrays and objects of at most n items over the values V.
Containers(V, n) ==
    {JArray(q) : q \in SeqsOf(V, n)} \cup {JObject(q) : q \in SeqsOf(Members(V), n)}

\* The arrays and objects nested in others.
Nested ==
    {JArray(<<>>), JObject(<<>>), JArray(<<JNull>>),
     JObject(<<[string |-> <<"a">>, val |-> JNumber([i |-> 1, half |-> FALSE])]>>)}

\* The value trees given to the serializer: depth at most two.
Trees ==
    Leaves \cup {JString(<<LongRun>>), JString(<<LongRun, "a", "a", "a", "a", "a", "a">>)}
           \cup Containers(InnerLeaves, MaxItems)
           \cup Containers(Nested, 1)

\* value->valueint: valuedouble truncated towards zero.
valueint(n) == IF n.half /\ n.i < 0 THEN n.i + 1 ELSE n.i

\* strbuf_appendf(cursor, remaining, "%d", value->valueint).
printf_d(i) == ToString(i)

\* strbuf_appendf(cursor, remaining, "%.17g", value->valuedouble) for a
\* valuedouble with fractional part 1/2.
printf_17g(n) ==
    IF n.i >= 0 THEN ToString(n.i) \o ".5"
    ELSE IF n.i = -1 THEN "-0.5"
    ELSE "-" \o ToString(-n.i - 1) \o ".5"

\* What strbuf_append_lua_string appends for one character.
Escaped(ch) ==
    CASE ch = "\\" -> "\\\\"
      [] ch = "\"" -> "\\\""
      [] ch = "<LF>" -> "\\n"
      [] ch = "<01>" -> "\\x01"
      [] OTHER -> ch

\* strbuf_append_lua_string: the pieces appended, one per strbuf_append call.
strbuf_append_lua_string(value) ==
    <<"\"">> \o [i \in 1..Len(value) |-> Escaped(value[i])] \o <<"\"">>

\* The texts of parts, with ", " appended before every part but the first.
RECURSIVE Joined(_)
Joined(parts) ==
    IF parts = <<>> THEN <<>>
    ELSE IF Len(parts) = 1 THEN parts[1]
    ELSE parts[1] \o <<", ">> \o Joined(Tail(parts))

\* The marker of a node kind serialize_cjson_to_lua has no branch for.
Unsupported == "<unsupported>"

\* The pieces serialize_cjson_to_lua appends for a value when the buffer
\* never runs out.
RECURSIVE Rendered(_)
Rendered(value) ==
    CASE value.k = "null" -> <<"nil">>
      [] value.k = "bool" -> <<IF value.b THEN "true" ELSE "false">>
      [] value.k = "number" ->
            <<IF ~value.n.half THEN printf_d(valueint(value.n)) ELSE printf_17g(value.n)>>
      [] value.k = "string" -> strbuf_append_lua_string(value.s)
      [] value.k = "array" ->
            <<"{">> \o Joined([i \in 1..Len(value.items) |-> Rendered(value.items[i])]) \o <<"}">>
      [] value.k = "object" ->
            <<"{">>
            \o Joined([i \in 1..Len(value.items) |->
                          <<"[">> \o strbuf_append_lua_string(value.items[i].string)
                                  \o <<"] = ">> \o Rendered(value.items[i].val)])
            \o <<"}">>
      [] OTHER -> <<Unsupported>>

\* The bytes a piece takes in the buffer.
PieceLen(p) == IF p = LongRun THEN 2040 ELSE Len(p)

RECURSIVE Size(_)
Size(text) == IF text = <<>> THEN 0 ELSE PieceLen(Head(text)) + Size(Tail(text))

\* A serializer result: whether it succeeded and the text in the buffer.
Serialized(ok, text) == [ok |-> ok, text |-> IF ok THEN text ELSE <<>>]

\* strbuf_append fails when snprintf's n >= remaining; remaining only
\* shrinks, so every append succeeds exactly when the whole text is shorter
\* than the buffer.
Fits(text, remaining) ==
    /\ \A i \in 1..Len(text) : text[i] # Unsupported
    /\ Size(text) < remaining

\* serialize_cjson_to_lua(value, &cursor, &remaining).
serialize_cjson_to_lua(value, remaining) ==
    Serialized(Fits(Rendered(value), remaining), Rendered(value))

\* char bindings_script[2048] of tool_lua_bind_dependency.
BindingsBufferSize == 2048

\* build_bindings_lua_script(interface_name, provider, opts, out, out_len);
\* opts is "absent" when the argument is missing.
build_bindings_lua_script(interface_name, provider, opts, out_len) ==
    LET text == <<"return {\n    [">> \o strbuf_append_lua_string(interface_name)
                \o <<"] = {\n        provider = ">> \o strbuf_append_lua_string(provider)
                \o <<",\n        opts = ">>
                \o (IF opts.k = "absent" THEN <<"{}">> ELSE Rendered(opts))
                \o <<"\n    }\n}\n">>
    IN  Serialized(Fits(text, out_len), text)

\* ------------------------------------------------------------------------
\* The Lua reader of a literal: dofile('/spiffs/bindings.lua')
\* ------------------------------------------------------------------------

\* Lua values; a table is the set of its <<key, value>> pairs, a key being
\* [n |-> index] or [s |-> string], and holds no nil value.
LNil == [k |-> "nil"]

LTable(fields) == [k |-> "table", fields |-> fields]

\* t[key] = val in a table constructor.
Put(fields, key, val) ==
    {f \in fields : f[1] # key} \cup (IF val = LNil THEN {} ELSE {<<key, val>>})

\* The character an escape sequence or a character of a quoted string denotes.
Unescaped(p) ==
    CASE p = "\\\\" -> "\\"
      [] p = "\\\"" -> "\""
      [] p = "\\n" -> "<LF>"
      [] p = "\\x01" -> "<01>"
      [] OTHER -> p

\* The number a numeral denotes.
lua_str2number(p) ==
    CASE p = "0" -> [i |-> 0, half |-> FALSE]
      [] p = "1" -> [i |-> 1, half |-> FALSE]
      [] p = "2" -> [i |-> 2, half |-> FALSE]
      [] p = "-1" -> [i |-> -1, half |-> FALSE]
      [] p = "0.5" -> [i |-> 0, half |-> TRUE]
      [] p = "1.5" -> [i |-> 1, half |-> TRUE]
      [] p = "-0.5" -> [i |-> -1, half |-> TRUE]
      [] p = "-1.5" -> [i |-> -2, half |-> TRUE]

\* The quoted string that starts after an opening quote: its characters up
\* to the closing quote, and the text that follows.
RECURSIVE lua_string(_, _)
lua_string(text, acc) ==
    IF Head(text) = "\""
    THEN [val |-> [k |-> "string", s |-> acc], rest |-> Tail(text)]
    ELSE lua_string(Tail(text), Append(acc, Unescaped(Head(text))))

\* An expression (simpleexp / constructor of the Lua parser): the value it
\* denotes and the text that follows it.
RECURSIVE lua_exp(_)
RECURSIVE lua_fields(_, _, _)
lua_exp(text) ==
    LET h == Head(text)
    IN  CASE h = "{" -> lua_fields(Tail(text), 1, {})
          [] h = "\"" -> lua_string(Tail(text), <<>>)
          [] h = "nil" -> [val |-> LNil, rest |-> Tail(text)]
          [] h \in {"true", "false"} ->
                [val |-> [k |-> "boolean", b |-> (h = "true")], rest |-> Tail(text)]
          [] OTHER -> [val |-> [k |-> "number", n |-> lua_str2number(h)], rest |-> Tail(text)]

\* The fields of a table constructor: positional ones take the indices 1,
\* 2, ... , a [key] = value field takes its key; later fields overwrite.
lua_fields(text, index, fields) ==
    LET h == Head(text)
    IN  CASE h = "}" -> [val |-> LTable(fields), rest |-> Tail(text)]
          [] h = ", " -> lua_fields(Tail(text), index, fields)
          [] h = "[" ->
                LET key == lua_exp(Tail(text))
                    val == lua_exp(Tail(key.rest))
                IN  lua_fields(val.rest, index, Put(fields, [s |-> key.val.s], val.val))
          [] OTHER ->
                LET val == lua_exp(text)
                IN  lua_fields(val.rest, index + 1, Put(fields, [n |-> index], val.val))

\* The value of the chunk "return <literal>".
lua_load(text) == lua_exp(text).val

\* cJSON_GetObjectItem(object, key): the first member of that name.
cJSON_GetObjectItem(members, key) ==
    members[CHOOSE i \in 1..Len(members) :
                /\ members[i].string = key
                /\ \A j \in 1..(i - 1) : members[j].string # key].val

\* A Lua value carries what a value tree carries: the same scalar, every
\* item of an array at its position, every member of an object at its key.
RECURSIVE Equivalent(_, _)
Equivalent(value, v) ==
    CASE value.k = "null" -> v = LNil
      [] value.k = "bool" -> v = [k |-> "boolean", b |-> value.b]
      [] value.k = "number" -> v = [k |-> "number", n |-> value.n]
      [] value.k = "string" -> v = [k |-> "string", s |-> value.s]
      [] value.k = "array" ->
            /\ v.k = "table"
            /\ {f[1] : f \in v.fields} = {[n |-> i] : i \in 1..Len(value.items)}
            /\ \A f \in v.fields : Equivalent(value.items[f[1].n], f[2])
      [] value.k = "object" ->
            /\ v.k = "table"
            /\ {f[1] : f \in v.fields} = {[s |-> value.items[i].string] : i \in 1..Len(value.items)}
            /\ \A f \in v.fields : Equivalent(cJSON_GetObjectItem(value.items, f[1].s), f[2])

\* ------------------------------------------------------------------------
\* lua_bind_dependency: main/mcp_tools.c 545-612
\* ------------------------------------------------------------------------

\* An argument that is missing, and a string argument.
Absent == [k |-> "absent"]

Str(s) == [k |-> "string", s |-> s]

\* The arguments of a call: whether args is an object, and its members.
BindArgs(obj, provider, interface, opts, restart) ==
    [object |-> obj, provider |-> provider, interface |-> interface,
     opts |-> opts, restart |-> restart]

\* An opts object of one member, and one whose rendering overflows the
\* 2048-byte buffer.
SmallOpts == JObject(<<[string |-> <<"a">>, val |-> JNumber([i |-> 1, half |-> FALSE])]>>)

HugeOpts == JObject(<<[string |-> <<"a">>, val |-> JString(<<LongRun>>)]>>)

\* The calls made: the valid ones, and for each check of the handler one
\* call that fails it.
BindCalls ==
    {BindArgs(TRUE, Str(<<"ssd1306">>), i, Absent, r) :
        i \in {Absent, Str(<<"oled">>)},
        r \in {Absent, [k |-> "true"], [k |-> "false"]}}
    \cup {BindArgs(TRUE, Str(<<"ssd1306">>), Absent, SmallOpts, r) :
            r \in {Absent, [k |-> "false"]}}
    \cup {BindArgs(FALSE, Absent, Absent, Absent, Absent)}
    \cup {BindArgs(TRUE, p, Absent, Absent, Absent) :
            p \in {Absent, [k |-> "number"], Str(<<>>)}}
    \cup {BindArgs(TRUE, Str(<<"ssd1306">>), i, Absent, Absent) :
            i \in {[k |-> "number"], Str(<<>>)}}
    \cup {BindArgs(TRUE, Str(<<"ssd1306">>), Absent, o, Absent) :
            o \in {JArray(<<>>), JNull, HugeOpts}}
    \cup {BindArgs(TRUE, Str(<<"ssd1306">>), Absent, Absent, [k |-> "string"])}

\* The record of a lua_bind_dependency call: its arguments, what it
\* returned before any restart, whether it went on to lua_runtime_restart.
BindOp(n, c, a, r, txt, restarts) ==
    [n |-> n, ctx |-> c, args |-> a, ret |-> r, text |-> txt, restarts |-> restarts]

\* The file lua_runtime_push_script("bindings.lua", bindings_script, false)
\* leaves.
BindingsFile(text) == File(<<[text |-> "<generated bindings.lua>", len |-> Size(text), lua |-> text]>>)

\* The part of tool_lua_bind_dependency that validates the arguments: the
\* status and message of the first check that fails, or ESP_OK.
bind_checks(a) ==
    CASE ~a.object ->
            [ret |-> "ESP_ERR_INVALID_ARG", text |-> "Missing arguments object"]
      [] a.provider.k # "string" \/ a.provider.s = <<>> ->
            [ret |-> "ESP_ERR_INVALID_ARG", text |-> "Missing required parameter: provider"]
      [] a.interface.k # "absent" /\ (a.interface.k # "string" \/ a.interface.s = <<>>) ->
            [ret |-> "ESP_ERR_INVALID_ARG",
             text |-> "Invalid parameter: interface must be non-empty string"]
      [] a.opts.k \notin {"absent", "object"} ->
            [ret |-> "ESP_ERR_INVALID_ARG", text |-> "Invalid parameter: opts must be object"]
      [] a.restart.k \notin {"absent", "true", "false"} ->
            [ret |-> "ESP_ERR_INVALID_ARG", text |-> "Invalid parameter: restart must be boolean"]
      [] OTHER -> [ret |-> "ESP_OK", text |-> ""]

\* const char *interface_name = "display", unless the argument is given.
interface_name(a) == IF a.interface.k = "absent" THEN <<"display">> ELSE a.interface.s

\* bool restart = true, unless the argument is given.
restart_flag(a) == IF a.restart.k = "absent" THEN TRUE ELSE a.restart.k = "true"

\* The script tool_lua_bind_dependency builds for its arguments.
bindings_script(a) ==
    build_bindings_lua_script(interface_name(a), a.provider.s, a.opts, BindingsBufferSize)

\* The call ends without a restart, returning r.
BindReturns(c, a, r, txt) ==
    /\ bind' = BindOp(calls + 1, c, a, r, txt, FALSE)
    /\ Return(c, r)
    /\ UNCHANGED <<midExec, activeAtCall>>

\* The call goes on to lua_runtime_restart().
BindRestarts(c, a) ==
    /\ bind' = BindOp(calls + 1, c, a, "ESP_OK", "", TRUE)
    /\ op' = [op EXCEPT ![c] = "bind"]
    /\ pc' = [pc EXCEPT ![c] = "r_check"]
    /\ ret' = [ret EXCEPT ![c] = "none"]
    /\ midExec' = [midExec EXCEPT ![c] = \E t \in TaskIds : task[t] = "running"]
    /\ activeAtCall' = [activeAtCall EXCEPT ![c] = ActiveTasks # {}]
    /\ UNCHANGED <<hnd, was_running, vmIn, status>>

\* A plausible slip: the restart argument is read but the runtime is
\* restarted whatever it says.
tool_lua_bind_dependency_restarting(c, a) ==
    /\ ~crashed
    /\ c \in Transports
    /\ pc[c] = "idle"
    /\ calls < MaxCalls
    /\ calls' = calls + 1
    /\ UNCHANGED <<L, lua_task_handle, lua_task_running, vm, task, taskVM, crashed>>
    /\ UNCHANGED <<busVars, exVars, msgVars, otaVars, got, edits, taskScript, tree, lua, logVars>>
    /\ IF bind_checks(a).ret # "ESP_OK"
       THEN /\ BindReturns(c, a, bind_checks(a).ret, bind_checks(a).text)
            /\ UNCHANGED store
       ELSE IF ~bindings_script(a).ok
       THEN /\ BindReturns(c, a, "ESP_ERR_INVALID_SIZE",
                           "Failed to generate bindings.lua (payload too large or unsupported type)")
            /\ UNCHANGED store
       ELSE /\ store' = [store EXCEPT !["bindings.lua"] = BindingsFile(bindings_script(a).text)]
            /\ BindRestarts(c, a)

\* A plausible slip: the script is written before the result of the
\* serializer is looked at, so an overflow stores what fitted.
tool_lua_bind_dependency_writing_first(c, a) ==
    /\ ~crashed
    /\ c \in Transports
    /\ pc[c] = "idle"
    /\ calls < MaxCalls
    /\ calls' = calls + 1
    /\ UNCHANGED <<L, lua_task_handle, lua_task_running, vm, task, taskVM, crashed>>
    /\ UNCHANGED <<busVars, exVars, msgVars, otaVars, got, edits, taskScript, tree, lua, logVars>>
    /\ IF bind_checks(a).ret # "ESP_OK"
       THEN /\ BindReturns(c, a, bind_checks(a).ret, bind_checks(a).text)
            /\ UNCHANGED store
       ELSE IF ~bindings_script(a).ok
       THEN /\ BindReturns(c, a, "ESP_ERR_INVALID_SIZE",
                           "Failed to generate bindings.lua (payload too large or unsupported type)")
            /\ store' = [store EXCEPT !["bindings.lua"] = BindingsFile(<<"return {\n    [">>)]
       ELSE /\ store' = [store EXCEPT !["bindings.lua"] = BindingsFile(bindings_script(a).text)]
            /\ IF restart_flag(a)
               THEN BindRestarts(c, a)
               ELSE BindReturns(c, a, "ESP_OK", "Binding updated")

\* tool_lua_bind_dependency, up to its call of lua_runtime_restart: the
\* checks, build_bindings_lua_script into bindings_script[2048],
\* lua_runtime_push_script, then the restart or the return.
tool_lua_bind_dependency(c, a) ==
    /\ ~crashed
    /\ c \in Transports
    /\ pc[c] = "idle"
    /\ calls < MaxCalls
    /\ calls' = calls + 1
    /\ UNCHANGED <<L, lua_task_handle, lua_task_running, vm, task, taskVM, crashed>>
    /\ UNCHANGED <<busVars, exVars, msgVars, otaVars, got, edits, taskScript, tree, lua, logVars>>
    /\ IF bind_checks(a).ret # "ESP_OK"
       THEN /\ BindReturns(c, a, bind_checks(a).ret, bind_checks(a).text)
            /\ UNCHANGED store
       ELSE IF ~bindings_script(a).ok
       THEN /\ BindReturns(c, a, "ESP_ERR_INVALID_SIZE",
                           "Failed to generate bindings.lua (payload too large or unsupported type)")
            /\ UNCHANGED store
       ELSE /\ store' = [store EXCEPT !["bindings.lua"] = BindingsFile(bindings_script(a).text)]
            /\ IF restart_flag(a)
               THEN BindRestarts(c, a)
               ELSE BindReturns(c, a, "ESP_OK", "Binding updated")

\* No serialization made yet, no lua_bind_dependency call made yet.
ToolIdle ==
    /\ tree = JNull
    /\ lua = Serialized(FALSE, <<>>)
    /\ bind = [n |-> 0, ctx |-> "none", args |-> BindArgs(FALSE, Absent, Absent, Absent, Absent),
               ret |-> "none", text |-> "", restarts |-> FALSE]

\* serialize_cjson_to_lua applied to a value tree, into a buffer of
\* BindingsBufferSize bytes.
serialize(value) ==
    /\ tree' = value
    /\ lua' = serialize_cjson_to_lua(value, BindingsBufferSize)
    /\ UNCHANGED <<busVars, rtVars, exVars, msgVars, otaVars, stVars, bind, logVars>>

\* ------------------------------------------------------------------------
\* The log capture: main/mcp_log.c
\* ------------------------------------------------------------------------

\* The tasks that log: the two server tasks, which also run sys_get_logs,
\* and lua_task.
LogTasks == {"https", "http", "lua_task"}

\* A run of n characters c; a text is a sequence of runs.
Rep(c, n) == [c |-> c, n |-> n]

\* The lines logged, as vsnprintf formats them into line[LOG_LINE_MAX] and
\* the hook strips them: the first character and the whole text. An info
\* line of 22 characters, an error line that fills the buffer and is made
\* of double quotes after its first character, and a bare line feed.
Lines ==
    {[prefix |-> "I", text |-> <<Rep("I", 1), Rep("a", 21)>>],
     [prefix |-> "E", text |-> <<Rep("E", 1), Rep("\"", 254)>>],
     [prefix |-> "", text |-> <<>>]}

\* detect_level_from_prefix.
detect_level_from_prefix(str) ==
    CASE str = "E" -> "ESP_LOG_ERROR"
      [] str = "W" -> "ESP_LOG_WARN"
      [] str = "I" -> "ESP_LOG_INFO"
      [] str = "D" -> "ESP_LOG_DEBUG"
      [] str = "V" -> "ESP_LOG_VERBOSE"
      [] OTHER -> "ESP_LOG_INFO"

\* A log_entry_t: text and level, and the log call that wrote it.
Entry(l) == [text |-> l.text, level |-> detect_level_from_prefix(l.prefix), call |-> l.call]

\* A slot of s_log_ring that was never written.
NoEntry == [text |-> <<>>, level |-> "none", call |-> 0]

\* A task that is not logging.
NoLine == [prefix |-> "", text |-> <<>>, call |-> 0]

\* The entry of mcp_log_init's own line, "I (0) mcp_log: Log capture
\* initialized (ring buffer: 64 entries)".
InitEntry ==
    [text |-> <<Rep("I", 1), Rep("a", 62)>>, level |-> "ESP_LOG_INFO", call |-> 0]

\* No sys_get_logs call yet.
NoQuery == [ret |-> "none"]

\* The state mcp_log_init leaves: the mutex created, the hook installed, and
\* its own "Log capture initialized" line printed and stored.
LogIdle ==
    /\ stored = <<InitEntry>>
    /\ query = NoQuery
    /\ s_log_ring = [i \in 0..(LOG_MAX_LINES - 1) |->
                        IF i = 0 THEN InitEntry ELSE NoEntry]
    /\ s_log_head = 1 % LOG_MAX_LINES
    /\ s_log_count = 1
    /\ s_log_mutex = "free"
    /\ console = <<>>
    /\ lpc = [k \in LogTasks |-> "idle"]
    /\ line = [k \in LogTasks |-> NoLine]
    /\ logs = 0

\* log_vprintf_hook, to its xSemaphoreTake: the line is forwarded to
\* s_original_vprintf, formatted and stripped; an empty line ends the hook.
log_forward(k, l) ==
    /\ lpc[k] = "idle"
    /\ logs < MaxLogs
    /\ logs' = logs + 1
    /\ console' = Append(console, [prefix |-> l.prefix, text |-> l.text, call |-> logs + 1])
    /\ line' = [line EXCEPT ![k] = [prefix |-> l.prefix, text |-> l.text, call |-> logs + 1]]
    /\ lpc' = [lpc EXCEPT ![k] = IF l.text = <<>> THEN "idle" ELSE "take"]
    /\ UNCHANGED <<s_log_ring, s_log_head, s_log_count, s_log_mutex, stored, query>>
    /\ UNCHANGED <<busVars, rtVars, exVars, msgVars, otaVars, stVars, toolVars>>

\* xSemaphoreTake(s_log_mutex, pdMS_TO_TICKS(10)) == pdTRUE.
log_take(k) ==
    /\ lpc[k] = "take"
    /\ s_log_mutex = "free"
    /\ s_log_mutex' = k
    /\ lpc' = [lpc EXCEPT ![k] = "store"]
    /\ UNCHANGED <<s_log_ring, s_log_head, s_log_count, console, line, logs, stored, query>>
    /\ UNCHANGED <<busVars, rtVars, exVars, msgVars, otaVars, stVars, toolVars>>

\* A plausible slip: after the timeout the entry is written without the lock.
log_timeout_storing(k) ==
    /\ lpc[k] = "take"
    /\ s_log_mutex # "free"
    /\ s_log_ring' = [s_log_ring EXCEPT ![s_log_head] = Entry(line[k])]
    /\ s_log_head' = (s_log_head + 1) % LOG_MAX_LINES
    /\ s_log_count' = IF s_log_count < LOG_MAX_LINES THEN s_log_count + 1 ELSE s_log_count
    /\ stored' = Append(stored, Entry(line[k]))
    /\ lpc' = [lpc EXCEPT ![k] = "idle"]
    /\ UNCHANGED <<s_log_mutex, console, line, logs, query>>
    /\ UNCHANGED <<busVars, rtVars, exVars, msgVars, otaVars, stVars, toolVars>>

\* xSemaphoreTake returns pdFALSE: another task held the mutex for the
\* whole 10 ms; the hook returns ret.
log_timeout(k) ==
    /\ lpc[k] = "take"
    /\ s_log_mutex # "free"
    /\ lpc' = [lpc EXCEPT ![k] = "idle"]
    /\ UNCHANGED <<s_log_ring, s_log_head, s_log_count, s_log_mutex, console, line, logs,
                   stored, query>>
    /\ UNCHANGED <<busVars, rtVars, exVars, msgVars, otaVars, stVars, toolVars>>

\* A plausible slip: the count is advanced on every store.
log_store_counting_on(k) ==
    /\ lpc[k] = "store"
    /\ s_log_ring' = [s_log_ring EXCEPT ![s_log_head] = Entry(line[k])]
    /\ s_log_head' = (s_log_head + 1) % LOG_MAX_LINES
    /\ s_log_count' = s_log_count + 1
    /\ s_log_mutex' = "free"
    /\ stored' = Append(stored, Entry(line[k]))
    /\ lpc' = [lpc EXCEPT ![k] = "idle"]
    /\ UNCHANGED <<console, line, logs, query>>
    /\ UNCHANGED <<busVars, rtVars, exVars, msgVars, otaVars, stVars, toolVars>>

\* The entry is written at s_log_head, head and count advance, the mutex
\* is given back.
log_store(k) ==
    /\ lpc[k] = "store"
    /\ s_log_ring' = [s_log_ring EXCEPT ![s_log_head] = Entry(line[k])]
    /\ s_log_head' = (s_log_head + 1) % LOG_MAX_LINES
    /\ s_log_count' = IF s_log_count < LOG_MAX_LINES THEN s_log_count + 1 ELSE s_log_count
    /\ s_log_mutex' = "free"
    /\ stored' = Append(stored, Entry(line[k]))
    /\ lpc' = [lpc EXCEPT ![k] = "idle"]
    /\ UNCHANGED <<console, line, logs, query>>
    /\ UNCHANGED <<busVars, rtVars, exVars, msgVars, otaVars, stVars, toolVars>>

\* tool_sys_get_logs: xSemaphoreTake(s_log_mutex, pdMS_TO_TICKS(100)) ==
\* pdTRUE; when the take fails the tool answers "[]" and no state changes.
get_logs_take(k) ==
    /\ k \in Transports
    /\ lpc[k] = "idle"
    /\ s_log_mutex = "free"
    /\ s_log_mutex' = k
    /\ lpc' = [lpc EXCEPT ![k] = "read"]
    /\ UNCHANGED <<s_log_ring, s_log_head, s_log_count, console, line, logs, stored, query>>
    /\ UNCHANGED <<busVars, rtVars, exVars, msgVars, otaVars, stVars, toolVars>>

\* tool_sys_get_logs: the ring has been walked; xSemaphoreGive.
get_logs_give(k) ==
    /\ lpc[k] = "read"
    /\ s_log_mutex' = "free"
    /\ lpc' = [lpc EXCEPT ![k] = "idle"]
    /\ UNCHANGED <<s_log_ring, s_log_head, s_log_count, console, line, logs, stored, query>>
    /\ UNCHANGED <<busVars, rtVars, exVars, msgVars, otaVars, stVars, toolVars>>


\* ------------------------------------------------------------------------
\* sys_get_logs: main/mcp_log.c 106-217
\* ------------------------------------------------------------------------

\* esp_log_level_t, as the integer the code compares.
esp_log_level(level) ==
    CASE level = "ESP_LOG_ERROR" -> 1
      [] level = "ESP_LOG_WARN" -> 2
      [] level = "ESP_LOG_INFO" -> 3
      [] level = "ESP_LOG_DEBUG" -> 4
      [] level = "ESP_LOG_VERBOSE" -> 5

\* parse_level_string.
parse_level_string(level_str) ==
    CASE level_str = "error" -> "ESP_LOG_ERROR"
      [] level_str = "warn" -> "ESP_LOG_WARN"
      [] level_str = "info" -> "ESP_LOG_INFO"
      [] level_str = "debug" -> "ESP_LOG_DEBUG"
      [] level_str = "verbose" -> "ESP_LOG_VERBOSE"
      [] OTHER -> "ESP_LOG_INFO"

\* The arguments of sys_get_logs: "level", "lines" and "filter", each
\* absent or given; a filter is one character.
LogArgs ==
    [level : {Absent, Str("error"), Str("debug"), Str("loud")},
     lines : {Absent} \cup [k : {"number"}, n : {0, 1, 2, 100}],
     filter : {Absent, Str("a"), Str("\"")}]

\* strstr(text, filter) != NULL for a filter of one character.
strstr(text, filter) == \E i \in 1..Len(text) : text[i].c = filter /\ text[i].n > 0

\* The escape loop over the runs of a text from run i on: each character
\* is copied while written < max_len - 20, a double quote, a backslash or a
\* line feed as two bytes. chars is the number of characters copied.
RECURSIVE EscapeLoop(_, _, _, _, _)
EscapeLoop(text, i, written, chars, max_len) ==
    IF i > Len(text) \/ written >= max_len - 20
    THEN [written |-> written, chars |-> chars]
    ELSE LET w == IF text[i].c \in {"\"", "\\", "<LF>"} THEN 2 ELSE 1
             room == ((max_len - 20 - written) + (w - 1)) \div w
             k == IF text[i].n < room THEN text[i].n ELSE room
         IN  EscapeLoop(text, i + 1, written + k * w, chars + k, max_len)

\* The characters of a text.
strlen(text) == IF text = <<>> THEN 0 ELSE EscapeLoop(text, 1, 0, 0, 1000000).chars

\* The second pass over the entries that are output, from entry i on: the
\* comma, {"t":<timestamp>,"msg":", the escaped text, "}; the walk stops
\* once written >= max_len - 100. The timestamp is the entry's call number.
RECURSIVE OutputLoop(_, _, _, _, _)
OutputLoop(es, i, written, out, max_len) ==
    IF i > Len(es)
    THEN [written |-> written, entries |-> out]
    ELSE LET w1 == written + (IF i = 1 THEN 0 ELSE 1)
             w2 == w1 + 5 + Len(ToString(es[i].call)) + 8
             esc == EscapeLoop(es[i].text, 1, w2, 0, max_len)
             w3 == esc.written + 2
             o == Append(out, [call |-> es[i].call, chars |-> esc.chars])
         IN  IF w3 >= max_len - 100
             THEN [written |-> w3, entries |-> o]
             ELSE OutputLoop(es, i + 1, w3, o, max_len)

\* The ring walked from the oldest entry to the newest.
Walk ==
    [i \in 1..s_log_count |->
        s_log_ring[((IF s_log_count < LOG_MAX_LINES THEN 0 ELSE s_log_head) + (i - 1))
                      % LOG_MAX_LINES]]

\* The entries the walk does not skip by level or filter.
Matching(args) ==
    LET min_level == IF args.level.k = "string"
                     THEN parse_level_string(args.level.s) ELSE "ESP_LOG_INFO"
        Matches(e) == /\ ~(esp_log_level(e.level) > esp_log_level(min_level))
                      /\ (args.filter.k = "string" => strstr(e.text, args.filter.s))
    IN  SelectSeq(Walk, Matches)

\* max_lines: 20, or the "lines" argument clamped to 1..LOG_MAX_LINES.
max_lines(args) ==
    IF args.lines.k = "number"
    THEN (IF args.lines.n < 1 THEN 1
          ELSE IF args.lines.n > LOG_MAX_LINES THEN LOG_MAX_LINES
          ELSE args.lines.n)
    ELSE 20

\* tool_sys_get_logs(args, result, max_len) with the mutex free: "[", the
\* matching entries after the first match_count - max_lines of them, "]".
tool_sys_get_logs(args) ==
    /\ s_log_mutex = "free"
    /\ LET m == Matching(args)
           skip == IF Len(m) > max_lines(args) THEN Len(m) - max_lines(args) ELSE 0
           o == OutputLoop(SubSeq(m, skip + 1, Len(m)), 1, 1, <<>>, ResultBufferSize)
       IN  query' = [ret |-> "ESP_OK", args |-> args, entries |-> o.entries,
                     written |-> o.written + 1]
    /\ UNCHANGED <<s_log_ring, s_log_head, s_log_count, s_log_mutex, console, lpc, line,
                   logs, stored>>
    /\ UNCHANGED <<busVars, rtVars, exVars, msgVars, otaVars, stVars, toolVars>>

\* ------------------------------------------------------------------------
\* The I2C capability: main/lua_runtime.c 38-71, 424-555
\* ------------------------------------------------------------------------

I2C_MAX_DEVICES == 4

\* Device handles i2c_master_bus_add_device can hand out in all.
MaxDevs == 5

\* Calls of i2c bindings made by the snippets in all.
MaxBusCalls == 3

DevIds == 1..MaxDevs

\* The device addresses the snippets pass, as Lua integers: one that is
\* cached from the start when the pool is filled, two that are not, and one
\* above 16 bits.
Addrs == {3, 4, 5, 65540}

\* The uint16_t parameter of i2c_get_device.
uint16(a) == a % 65536

\* The bindings that use a device.
Transfers == {"write", "read", "write_read"}

\* A slot of i2c_dev_cache that was never written.
NoDevice == [addr |-> 0, handle |-> NULL]

\* A context that is in no i2c binding, with what its last one returned.
OutOfBus(r) == [pc |-> "idle", fn |-> "none", addr |-> 0, dev |-> NULL, ret |-> r]

\* The statics as initialised at lines 43-50: no bus, no cached device.
BusIdle ==
    /\ i2c_bus_handle = NULL
    /\ i2c_dev_cache = [i \in 0..(I2C_MAX_DEVICES - 1) |-> NoDevice]
    /\ i2c_dev_count = 0
    /\ devs = [h \in DevIds |-> "unused"]
    /\ bus = [c \in Transports |-> OutOfBus("none")]
    /\ busCalls = 0

\* The statics after i2c.setup and transfers to the addresses 1..n, made
\* one after another by earlier snippets.
BusWith(n) ==
    /\ i2c_bus_handle = MaxBusCalls + 1
    /\ i2c_dev_cache = [i \in 0..(I2C_MAX_DEVICES - 1) |->
                           IF i < n THEN [addr |-> i + 1, handle |-> i + 1] ELSE NoDevice]
    /\ i2c_dev_count = n
    /\ devs = [h \in DevIds |-> IF h <= n THEN "live" ELSE "unused"]
    /\ bus = [c \in Transports |-> OutOfBus("none")]
    /\ busCalls = 0

\* The device i2c_master_bus_add_device can create, or NULL when it fails.
i2c_master_bus_add_device ==
    {NULL} \cup {h \in DevIds : devs[h] = "unused" /\ \A g \in DevIds : devs[g] = "unused" => h <= g}

\* The cache slots below i2c_dev_count that hold addr.
Cached(addr) ==
    {i \in 0..(I2C_MAX_DEVICES - 1) : i < i2c_dev_count /\ i2c_dev_cache[i].addr = addr}

\* A binding raises: luaL_error with this message, back in the snippet.
BusError(c, message) ==
    bus' = [bus EXCEPT ![c] = OutOfBus(message)]

\* l_i2c_write, l_i2c_read, l_i2c_write_read called by the snippet that
\* context c runs, to the first half of i2c_get_device: the cache is
\* searched; a miss with no bus or with I2C_MAX_DEVICES entries returns
\* NULL and the binding raises.
i2c_lookup(c, fn, a) ==
    /\ ~crashed
    /\ pc[c] = "e_in_vm"
    /\ bus[c].pc = "idle"
    /\ busCalls < MaxBusCalls
    /\ i2c_dev_count <= I2C_MAX_DEVICES
    /\ busCalls' = busCalls + 1
    /\ LET addr == uint16(a) IN
       IF Cached(addr) # {}
       THEN bus' = [bus EXCEPT ![c] =
                       [pc |-> "transfer", fn |-> fn, addr |-> addr,
                        dev |-> i2c_dev_cache[CHOOSE i \in Cached(addr) :
                                                 \A j \in Cached(addr) : i <= j].handle,
                        ret |-> "none"]]
       ELSE IF i2c_bus_handle = NULL \/ i2c_dev_count >= I2C_MAX_DEVICES
       THEN BusError(c, "i2c: cannot get device")
       ELSE bus' = [bus EXCEPT ![c] =
                       [pc |-> "add", fn |-> fn, addr |-> addr, dev |-> NULL, ret |-> "none"]]
    /\ UNCHANGED <<i2c_bus_handle, i2c_dev_cache, i2c_dev_count, devs>>
    /\ UNCHANGED <<rtVars, exVars, msgVars, otaVars, stVars, toolVars, logVars>>

\* i2c_get_device: i2c_master_bus_add_device(i2c_bus_handle, &cfg, &dev).
i2c_add(c) ==
    /\ ~crashed
    /\ bus[c].pc = "add"
    /\ \E h \in i2c_master_bus_add_device :
         IF h = NULL \/ i2c_bus_handle = NULL
         THEN /\ BusError(c, "i2c: cannot get device")
              /\ UNCHANGED devs
         ELSE /\ devs' = [devs EXCEPT ![h] = "live"]
              /\ bus' = [bus EXCEPT ![c].pc = "store", ![c].dev = h]
    /\ UNCHANGED <<i2c_bus_handle, i2c_dev_cache, i2c_dev_count, busCalls>>
    /\ UNCHANGED <<rtVars, exVars, msgVars, otaVars, stVars, toolVars, logVars>>

\* i2c_get_device: i2c_dev_cache[i2c_dev_count] = {addr, dev};
\* i2c_dev_count++. With i2c_dev_count at I2C_MAX_DEVICES the entry is
\* written past the end of the array.
i2c_store(c) ==
    /\ ~crashed
    /\ bus[c].pc = "store"
    /\ i2c_dev_cache' =
          IF i2c_dev_count < I2C_MAX_DEVICES
          THEN [i2c_dev_cache EXCEPT ![i2c_dev_count] =
                   [addr |-> bus[c].addr, handle |-> bus[c].dev]]
          ELSE i2c_dev_cache
    /\ i2c_dev_count' = i2c_dev_count + 1
    /\ bus' = [bus EXCEPT ![c].pc = "transfer"]
    /\ UNCHANGED <<i2c_bus_handle, devs, busCalls>>
    /\ UNCHANGED <<rtVars, exVars, msgVars, otaVars, stVars, toolVars, logVars>>

\* i2c_master_transmit, i2c_master_receive or i2c_master_transmit_receive
\* with I2C_TIMEOUT_MS: the binding returns, or raises when the transfer
\* fails.
i2c_transfer(c) ==
    /\ ~crashed
    /\ bus[c].pc = "transfer"
    /\ \/ bus' = [bus EXCEPT ![c] = OutOfBus("ok")]
       \/ BusError(c, "i2c." \o bus[c].fn \o " failed")
    /\ UNCHANGED <<i2c_bus_handle, i2c_dev_cache, i2c_dev_count, devs, busCalls>>
    /\ UNCHANGED <<rtVars, exVars, msgVars, otaVars, stVars, toolVars, logVars>>

\* l_i2c_setup called by the snippet that context c runs, to its
\* i2c_new_master_bus: with a bus present every cached device is removed,
\* i2c_dev_count = 0, the bus is deleted, i2c_bus_handle = NULL.
i2c_setup_clean(c) ==
    /\ ~crashed
    /\ pc[c] = "e_in_vm"
    /\ bus[c].pc = "idle"
    /\ busCalls < MaxBusCalls
    /\ i2c_dev_count <= I2C_MAX_DEVICES
    /\ busCalls' = busCalls + 1
    /\ IF i2c_bus_handle # NULL
       THEN /\ devs' = [h \in DevIds |->
                          IF \E i \in 0..(I2C_MAX_DEVICES - 1) :
                                i < i2c_dev_count /\ i2c_dev_cache[i].handle = h
                          THEN "removed" ELSE devs[h]]
            /\ i2c_dev_count' = 0
            /\ i2c_bus_handle' = NULL
       ELSE UNCHANGED <<devs, i2c_dev_count, i2c_bus_handle>>
    /\ bus' = [bus EXCEPT ![c] =
                  [pc |-> "new", fn |-> "setup", addr |-> 0, dev |-> NULL, ret |-> "none"]]
    /\ UNCHANGED i2c_dev_cache
    /\ UNCHANGED <<rtVars, exVars, msgVars, otaVars, stVars, toolVars, logVars>>

\* l_i2c_setup: i2c_new_master_bus(&bus_cfg, &i2c_bus_handle) stores a new
\* handle, or fails and the binding raises.
i2c_setup_new(c) ==
    /\ ~crashed
    /\ bus[c].pc = "new"
    /\ \/ /\ i2c_bus_handle' = busCalls
          /\ bus' = [bus EXCEPT ![c] = OutOfBus("ok")]
       \/ /\ BusError(c, "i2c.setup failed")
          /\ UNCHANGED i2c_bus_handle
    /\ UNCHANGED <<i2c_dev_cache, i2c_dev_count, devs, busCalls>>
    /\ UNCHANGED <<rtVars, exVars, msgVars, otaVars, stVars, toolVars, logVars>>

\* ------------------------------------------------------------------------
\* Specification of the runtime lifecycle
\* ------------------------------------------------------------------------

\* The values the other specifications' variables rest at.
ExecIdle ==
    /\ stack = <<>>
    /\ snippet = [kind |-> "none"]
    /\ result = "none"
    /\ execRet = "none"

\* The OTA statics as initialised at mcp_ota.c 19-21, no ota_task, the
\* firmware running from a confirmed image in slot 1.
OtaIdle ==
    /\ s_ota_state = "OTA_STATE_IDLE"
    /\ s_ota_progress_pct = 0
    /\ s_ota_message = "idle"
    /\ ota = [t \in 1..MaxOtaTasks |-> [pc |-> "unused", total_read |-> 0, content_length |-> 0, failed |-> FALSE, finalised |-> FALSE, marked |-> FALSE]]
    /\ img = [p \in 1..2 |-> IF p = 1 THEN "ESP_OTA_IMG_VALID" ELSE "ESP_OTA_IMG_UNDEFINED"]
    /\ running = 1
    /\ boot = 1
    /\ timer = "none"
    /\ boots = 0
    /\ pushes = 0
    /\ pushRet = "none"

MsgIdle ==
    /\ initialized = FALSE
    /\ msg = [json |-> FALSE, none |-> TRUE]
    /\ response = [kind |-> "none"]
    /\ invoked = [method |-> "none", tool |-> "none", ret |-> "none"]
    /\ device = "up"

\* The globals' initialisers, the servers started (main.c), app_main about
\* to call lua_runtime_init.
Init ==
    /\ L = NULL
    /\ lua_task_handle = NULL
    /\ lua_task_running = FALSE
    /\ vm = [v \in VMIds |-> "unused"]
    /\ task = [t \in TaskIds |-> "unused"]
    /\ taskVM = [t \in TaskIds |-> NULL]
    /\ crashed = FALSE
    /\ pc = [c \in Ctx |-> IF c = "main" THEN "m_init" ELSE "idle"]
    /\ op = [c \in Ctx |-> IF c = "main" THEN "init" ELSE "none"]
    /\ hnd = [c \in Ctx |-> NULL]
    /\ was_running = [c \in Ctx |-> FALSE]
    /\ vmIn = [c \in Ctx |-> NULL]
    /\ status = [c \in Ctx |-> "none"]
    /\ ret = [c \in Ctx |-> "none"]
    /\ calls = 0
    /\ midExec = [c \in Ctx |-> FALSE]
    /\ activeAtCall = [c \in Ctx |-> FALSE]
    /\ ExecIdle
    /\ MsgIdle
    /\ OtaIdle
    /\ StoreIdle
    /\ ToolIdle
    /\ LogIdle
    /\ BusIdle

Next ==
    \/ \E c \in Transports, o \in {"restart", "exec"} : Call(c, o)
    \/ \E c \in Ctx : lua_runtime_init(c)
    \/ \E c \in Ctx : start_check(c)
    \/ \E c \in Ctx : start_create(c)
    \/ \E c \in Ctx : restart_check(c)
    \/ \E c \in Ctx : restart_delete(c)
    \/ \E c \in Ctx : restart_clear(c)
    \/ \E c \in Ctx : restart_destroy(c)
    \/ \E c \in Ctx : restart_create(c)
    \/ \E c \in Ctx : exec_checkL(c)
    \/ \E c \in Ctx : exec_check(c)
    \/ \E c \in Ctx : exec_delete(c)
    \/ \E c \in Ctx : exec_clear(c)
    \/ \E c \in Ctx : exec_dostring(c)
    \/ \E c \in Ctx : exec_finish(c)
    \/ \E t \in TaskIds : task_run(t)
    \/ \E t \in TaskIds : task_finish(t)
    \/ \E c \in Transports : push_entry_point(c)

Spec == Init /\ [][Next]_vars

\* ------------------------------------------------------------------------
\* lua_runtime_exec's result capture: the evaluation stack of L across calls
\* ------------------------------------------------------------------------

\* Values a snippet returns at most, and the stack depth the model follows.
MaxRet == 2
MaxStack == 3

\* Lua values a snippet can leave on the stack.
LuaValues ==
    {[type |-> "nil"], [type |-> "boolean", b |-> TRUE],
     [type |-> "number", n |-> 1], [type |-> "number", n |-> 2]}

\* Error messages a snippet can raise.
LuaErrors == {"attempt to call a nil value", "boom"}

\* A snippet, by what it does when run: return values (none, one, several)
\* or raise.
Snippets ==
    [kind : {"return"}, vals : SeqsOf(LuaValues, MaxRet)]
        \cup [kind : {"raise"}, err : LuaErrors]

\* luaL_tolstring: the text rendering of a value.
luaL_tolstring(v) ==
    CASE v.type = "nil" -> "nil"
      [] v.type = "boolean" -> (IF v.b THEN "true" ELSE "false")
      [] v.type = "number" -> ToString(v.n)

\* lua_pop(L, n), which never goes below the base of the stack frame.
lua_pop(st, n) ==
    IF n >= Len(st) THEN <<>> ELSE SubSeq(st, 1, Len(st) - n)

\* lua_runtime_exec(code, result, max_len) with no lua_task to stop:
\* luaL_dostring pushes every value the chunk returns (LUA_MULTRET) or the
\* error message; the error path pops the message; the success path renders
\* the top value and pops the rendering and one value.
lua_runtime_exec(s) ==
    /\ UNCHANGED <<busVars, rtVars, msgVars, otaVars, stVars, toolVars, logVars>>
    /\ Len(stack) + (IF s.kind = "return" THEN Len(s.vals) ELSE 1) <= MaxStack
    /\ snippet' = s
    /\ IF s.kind = "raise"
       THEN /\ result' = "error: " \o s.err
            /\ stack' = lua_pop(Append(stack, [type |-> "string", s |-> s.err]), 1)
            /\ execRet' = "ESP_FAIL"
       ELSE LET st == stack \o s.vals IN
            IF Len(st) > 0
            THEN /\ result' = luaL_tolstring(st[Len(st)])
                 /\ stack' = lua_pop(Append(st, [type |-> "string", s |-> luaL_tolstring(st[Len(st)])]), 2)
                 /\ execRet' = "ESP_OK"
            ELSE /\ result' = "ok"
                 /\ stack' = st
                 /\ execRet' = "ESP_OK"

\* lua_runtime_restart with no lua_task to stop: destroy_vm(L) and
\* L = create_vm() leave a state whose stack is empty.
lua_runtime_restart ==
    /\ UNCHANGED <<busVars, rtVars, msgVars, otaVars, stVars, toolVars, logVars>>
    /\ stack' = <<>>
    /\ snippet' = [kind |-> "restart"]
    /\ result' = "none"
    /\ execRet' = "none"

InitExec ==
    /\ L = 1
    /\ lua_task_handle = NULL
    /\ lua_task_running = FALSE
    /\ vm = [v \in VMIds |-> IF v = 1 THEN "live" ELSE "unused"]
    /\ task = [t \in TaskIds |-> "unused"]
    /\ taskVM = [t \in TaskIds |-> NULL]
    /\ crashed = FALSE
    /\ pc = [c \in Ctx |-> "idle"]
    /\ op = [c \in Ctx |-> "none"]
    /\ hnd = [c \in Ctx |-> NULL]
    /\ was_running = [c \in Ctx |-> FALSE]
    /\ vmIn = [c \in Ctx |-> NULL]
    /\ status = [c \in Ctx |-> "none"]
    /\ ret = [c \in Ctx |-> "none"]
    /\ calls = 0
    /\ midExec = [c \in Ctx |-> FALSE]
    /\ activeAtCall = [c \in Ctx |-> FALSE]
    /\ ExecIdle
    /\ MsgIdle
    /\ OtaIdle
    /\ StoreIdle
    /\ ToolIdle
    /\ LogIdle
    /\ BusIdle

NextExec ==
    \/ \E s \in Snippets : lua_runtime_exec(s)
    \/ lua_runtime_restart

SpecExec == InitExec /\ [][NextExec]_vars

\* ------------------------------------------------------------------------
\* The message codec: main/jsonrpc.c
\* ------------------------------------------------------------------------

JSONRPC_PARSE_ERROR == -32700
JSONRPC_INVALID_REQUEST == -32600
JSONRPC_METHOD_NOT_FOUND == -32601
JSONRPC_INVALID_PARAMS == -32602
JSONRPC_INTERNAL_ERROR == -32603

\* The names of tool_registry[], in table order.
ToolNames ==
    <<"control_led", "get_status", "get_system_prompt", "sys_get_logs",
      "sys_ota_push", "sys_ota_status", "sys_ota_rollback", "sys_reboot",
      "lua_push_script", "lua_get_script", "lua_list_scripts", "lua_exec",
      "lua_bind_dependency", "lua_restart">>

Registry == {ToolNames[i] : i \in 1..Len(ToolNames)}

\* The "id" member of a message: absent, a number, a string, or another
\* JSON value (null, true, ...).
IdForms ==
    {[k |-> "absent"], [k |-> "other"]}
        \cup [k : {"number"}, n : {0, 1, 7}]
        \cup [k : {"string"}, s : {"7", "abc"}]

\* The "name" member of params.
NameForms ==
    {[k |-> "absent"], [k |-> "nonstring"]}
        \cup [k : {"string"}, s : Registry \cup {"nonexistent"}]

\* The "params" member: absent, a value that is no object, or an object.
ParamsForms ==
    {[k |-> "absent"], [k |-> "nonobject"]}
        \cup [k : {"object"}, name : NameForms]

\* The "method" member: absent, not a string, or a method name.
MethodForms ==
    {[k |-> "absent"], [k |-> "nonstring"]}
        \cup [k : {"string"},
              s : {"initialize", "tools/list", "tools/call", "ping", "resources/list"}]

\* A JSON object with these members.
Object(v, i, m, p, r, e) ==
    [json |-> TRUE, jsonrpc |-> v, id |-> i, method |-> m, params |-> p,
     hasResult |-> r, hasError |-> e]

Method(str) == [k |-> "string", s |-> str]

\* The texts a transport can deliver: text cJSON_Parse rejects; a ping
\* under every version member and identifier; objects without a usable
\* method; the methods other than tools/call under every shape of params;
\* tools/call under every params and tool name.
Messages ==
    {[json |-> FALSE]}
        \cup {Object(v, i, Method("ping"), [k |-> "absent"], FALSE, FALSE) :
                v \in {"absent", "nonstring", "1.0", "2.0"}, i \in IdForms}
        \cup {Object("2.0", i, m, [k |-> "absent"], r, e) :
                i \in {[k |-> "absent"], [k |-> "number", n |-> 1]},
                m \in {[k |-> "absent"], [k |-> "nonstring"], Method("ping")},
                r \in BOOLEAN, e \in BOOLEAN}
        \cup {Object("2.0", i, m, p, FALSE, FALSE) :
                i \in {[k |-> "absent"], [k |-> "number", n |-> 1]},
                m \in {mf \in MethodForms : mf.k = "string" /\ mf.s # "tools/call"},
                p \in {[k |-> "absent"], [k |-> "nonobject"],
                       [k |-> "object", name |-> [k |-> "absent"]]}}
        \cup {Object("2.0", i, Method("tools/call"), p, FALSE, FALSE) :
                i \in {[k |-> "absent"], [k |-> "number", n |-> 0],
                       [k |-> "number", n |-> 1], [k |-> "string", s |-> "7"]},
                p \in ParamsForms}

\* atoi on the string identifiers of IdForms.
atoi(str) == IF str = "7" THEN 7 ELSE 0

ParseFailed == [ok |-> FALSE]

\* The message jsonrpc_parse_message fills in: the fields it sets after
\* memset(msg, 0, ...); result and error tell whether msg->result, or
\* msg->error_code and msg->error_message, were filled from the text.
Parsed(has_id, id, type, method, params, res, err) ==
    [ok |-> TRUE, has_id |-> has_id, id |-> id, type |-> type,
     method |-> method, params |-> params, result |-> res, error |-> err]

\* if (id) ...: msg->id.
msg_id(m) ==
    IF m.id.k = "number" THEN m.id.n
    ELSE IF m.id.k = "string" THEN atoi(m.id.s)
    ELSE 0

\* A plausible slip: the version member is not looked at.
jsonrpc_parse_message_any_version(m) ==
    IF ~m.json THEN ParseFailed
    ELSE LET has_id == m.id.k # "absent"
         IN IF m.method.k = "string"
            THEN Parsed(has_id, msg_id(m),
                        IF has_id THEN "JSONRPC_REQUEST" ELSE "JSONRPC_NOTIFICATION",
                        m.method.s, m.params, FALSE, FALSE)
            ELSE IF m.hasResult
            THEN Parsed(has_id, msg_id(m), "JSONRPC_RESPONSE", "", [k |-> "absent"], TRUE, FALSE)
            ELSE IF m.hasError
            THEN Parsed(has_id, msg_id(m), "JSONRPC_ERROR", "", [k |-> "absent"], FALSE, TRUE)
            ELSE ParseFailed

\* A plausible slip: result is looked at before method.
jsonrpc_parse_message_result_first(m) ==
    IF ~m.json THEN ParseFailed
    ELSE IF m.jsonrpc # "2.0" THEN ParseFailed
    ELSE LET has_id == m.id.k # "absent"
         IN IF m.hasResult
            THEN Parsed(has_id, msg_id(m), "JSONRPC_RESPONSE", "", [k |-> "absent"], TRUE, FALSE)
            ELSE IF m.method.k = "string"
            THEN Parsed(has_id, msg_id(m),
                        IF has_id THEN "JSONRPC_REQUEST" ELSE "JSONRPC_NOTIFICATION",
                        m.method.s, m.params, FALSE, FALSE)
            ELSE IF m.hasError
            THEN Parsed(has_id, msg_id(m), "JSONRPC_ERROR", "", [k |-> "absent"], FALSE, TRUE)
            ELSE ParseFailed

\* jsonrpc_parse_message.
jsonrpc_parse_message(m) ==
    IF ~m.json THEN ParseFailed
    ELSE IF m.jsonrpc # "2.0" THEN ParseFailed
    ELSE LET has_id == m.id.k # "absent"
         IN IF m.method.k = "string"
            THEN Parsed(has_id, msg_id(m),
                        IF has_id THEN "JSONRPC_REQUEST" ELSE "JSONRPC_NOTIFICATION",
                        m.method.s, m.params, FALSE, FALSE)
            ELSE IF m.hasResult
            THEN Parsed(has_id, msg_id(m), "JSONRPC_RESPONSE", "", [k |-> "absent"], TRUE, FALSE)
            ELSE IF m.hasError
            THEN Parsed(has_id, msg_id(m), "JSONRPC_ERROR", "", [k |-> "absent"], FALSE, TRUE)
            ELSE ParseFailed

\* jsonrpc_create_response: {"jsonrpc":"2.0","id":id,"result":result}.
jsonrpc_create_response(id, res) ==
    [kind |-> "result", id |-> [k |-> "number", n |-> id], result |-> res]

\* jsonrpc_create_error: the id is emitted as null when it is 0.
jsonrpc_create_error(id, code, message) ==
    [kind |-> "error",
     id |-> IF id # 0 THEN [k |-> "number", n |-> id] ELSE [k |-> "null"],
     code |-> code, message |-> message]

NoResponse == [kind |-> "none"]

\* ------------------------------------------------------------------------
\* The tool registry: main/mcp_tools.c
\* ------------------------------------------------------------------------

\* What a handler can do: return a status, having written its text into
\* the result buffer or not, or restart the device and never return.
Outcome(st, txt) == [returns |-> TRUE, status |-> st, written |-> TRUE, text |-> txt]

Silent(st) == [returns |-> TRUE, status |-> st, written |-> FALSE, text |-> ""]

NoReturn == [returns |-> FALSE, status |-> "none", written |-> TRUE, text |-> "Rebooting device..."]

\* The outcomes of each handler of tool_registry[], read off its return
\* statements.
ToolOutcomes(name) ==
    CASE name = "control_led" ->
            {Outcome("ESP_OK", "LED turned on"),
             Outcome("ESP_ERR_INVALID_STATE", "LED not initialized"),
             Outcome("ESP_ERR_INVALID_ARG", "Missing or invalid 'state' parameter")}
      [] name = "get_status" -> {Outcome("ESP_OK", "ESP32 System Status:")}
      [] name = "get_system_prompt" -> {Outcome("ESP_OK", "You are controlling an ESP32 MCP server")}
      [] name = "sys_get_logs" ->
            {Outcome("ESP_OK", "[]"),
             Outcome("ESP_ERR_INVALID_STATE", "Log system not initialized")}
      [] name = "sys_ota_push" ->
            {Outcome("ESP_OK", "OTA update started from: "),
             Outcome("ESP_ERR_INVALID_STATE", "OTA already in progress"),
             Outcome("ESP_ERR_INVALID_ARG", "Missing or empty 'url' parameter"),
             Outcome("ESP_ERR_NO_MEM", "Out of memory"),
             Outcome("ESP_FAIL", "Failed to create OTA task")}
      [] name = "sys_ota_status" -> {Outcome("ESP_OK", "{state, progress_pct, message}")}
      [] name = "sys_ota_rollback" ->
            {NoReturn, Outcome("ESP_OK", "Rolling back to previous firmware and rebooting...")}
      [] name = "sys_reboot" -> {NoReturn}
      [] name = "lua_push_script" ->
            {Outcome("ESP_OK", "Script written"),
             Outcome("ESP_ERR_INVALID_ARG", "Missing required parameters: name, content"),
             Outcome("ESP_FAIL", "Failed to write script")}
      [] name = "lua_get_script" ->
            {Outcome("ESP_OK", "<script content>"),
             Outcome("ESP_ERR_INVALID_ARG", "Missing required parameter: name"),
             Outcome("ESP_ERR_NOT_FOUND", "Script not found: ")}
      [] name = "lua_list_scripts" ->
            {Outcome("ESP_OK", "(no scripts)"),
             Outcome("ESP_FAIL", "Failed to open SPIFFS directory")}
      [] name = "lua_exec" ->
            {Outcome("ESP_OK", "ok"),
             Outcome("ESP_FAIL", "error: "),
             Outcome("ESP_ERR_INVALID_ARG", "Missing required parameter: code"),
             Silent("ESP_ERR_INVALID_ARG")}
      [] name = "lua_bind_dependency" ->
            {Outcome("ESP_OK", "Binding updated"),
             Outcome("ESP_ERR_INVALID_ARG", "Missing required parameter: provider"),
             Outcome("ESP_ERR_INVALID_SIZE", "Failed to generate bindings.lua"),
             Outcome("ESP_FAIL", "Failed to write bindings.lua"),
             Outcome("ESP_ERR_INVALID_STATE", "bindings.lua updated, but lua_restart failed")}
      [] name = "lua_restart" ->
            {Outcome("ESP_OK", "Lua VM restarted, main.lua re-executing"),
             Outcome("ESP_FAIL", "Failed to restart Lua VM"),
             Outcome("ESP_ERR_INVALID_STATE", "Failed to restart Lua VM")}
      [] OTHER -> {Silent("none")}

\* What char result_text[2048], which has no initialiser, can hold when
\* mcp_handle_tools_call passes it on: an empty string or stack garbage.
BufferBefore == {"", "<stack garbage>"}

\* mcp_tools_find.
mcp_tools_find(name) == name \in Registry

\* mcp_tools_execute(tool_name, arguments, result_text, max_len, &is_error),
\* the handler doing `out`, the buffer holding `before`.
mcp_tools_execute(name, out, before) ==
    IF ~mcp_tools_find(name)
    THEN [returns |-> TRUE, ret |-> "ESP_ERR_NOT_FOUND", is_error |-> TRUE,
          text |-> "Tool not found: " \o name, handler |-> "none", status |-> "none"]
    ELSE IF ~out.returns
    THEN [returns |-> FALSE, ret |-> "none", is_error |-> FALSE,
          text |-> out.text, handler |-> name, status |-> "none"]
    ELSE LET buf == IF out.written THEN out.text ELSE before
         IN [returns |-> TRUE, ret |-> out.status, is_error |-> out.status # "ESP_OK",
             text |-> IF out.status # "ESP_OK" /\ buf = ""
                      THEN "Tool execution failed: " \o out.status
                      ELSE buf,
             handler |-> name, status |-> out.status]

\* ------------------------------------------------------------------------
\* The protocol handlers: main/mcp_protocol.c
\* ------------------------------------------------------------------------

\* Which handlers a message reached: the method handler, the tool handler,
\* and the status the tool handler returned.
Invoked(m, t, r) == [method |-> m, tool |-> t, ret |-> r]

NoneInvoked == Invoked("none", "none", "none")

\* What a method handler hands back to the dispatcher.
Handled(err, res, hnds, ini) ==
    [returns |-> TRUE, err |-> err, result |-> res, handlers |-> hnds, initialized |-> ini]

NoResult == [kind |-> "null"]

\* mcp_handle_initialize.
mcp_handle_initialize(params) ==
    IF params.k = "absent"
    THEN Handled("ESP_ERR_INVALID_ARG", NoResult, Invoked("initialize", "none", "none"), initialized)
    ELSE Handled("ESP_OK",
                 [kind |-> "initialize", protocolVersion |-> "2024-11-05",
                  serverInfo |-> "esp32-mcp-server"],
                 Invoked("initialize", "none", "none"), TRUE)

\* mcp_handle_tools_list.
mcp_handle_tools_list(params) ==
    Handled("ESP_OK", [kind |-> "tools", tools |-> ToolNames], Invoked("tools/list", "none", "none"), initialized)

\* mcp_handle_ping.
mcp_handle_ping(params) ==
    Handled("ESP_OK", [kind |-> "empty"], Invoked("ping", "none", "none"), initialized)

\* A plausible slip: the tool's status is handed to the dispatcher instead
\* of ESP_OK.
mcp_handle_tools_call_propagating(params, out, before) ==
    IF params.k # "object" \/ params.name.k # "string"
    THEN Handled("ESP_ERR_INVALID_ARG", NoResult, Invoked("tools/call", "none", "none"), initialized)
    ELSE LET x == mcp_tools_execute(params.name.s, out, before)
             content == <<[type |-> "text", text |-> x.text]>>
         IN Handled(x.ret,
                    IF x.is_error \/ x.ret # "ESP_OK"
                    THEN [kind |-> "toolresult", content |-> content, isError |-> TRUE]
                    ELSE [kind |-> "toolresult", content |-> content],
                    Invoked("tools/call", x.handler, x.status), initialized)

\* mcp_handle_tools_call: the tool's text in one content block, isError
\* added when is_error or a status other than ESP_OK; always ESP_OK.
mcp_handle_tools_call(params, out, before) ==
    IF params.k # "object" \/ params.name.k # "string"
    THEN Handled("ESP_ERR_INVALID_ARG", NoResult, Invoked("tools/call", "none", "none"), initialized)
    ELSE LET x == mcp_tools_execute(params.name.s, out, before)
             content == <<[type |-> "text", text |-> x.text]>>
         IN IF ~x.returns
            THEN [returns |-> FALSE, err |-> "none", result |-> NoResult,
                  handlers |-> Invoked("tools/call", x.handler, "none"), initialized |-> initialized]
            ELSE Handled("ESP_OK",
                         IF x.is_error \/ x.ret # "ESP_OK"
                         THEN [kind |-> "toolresult", content |-> content, isError |-> TRUE]
                         ELSE [kind |-> "toolresult", content |-> content],
                         Invoked("tools/call", x.handler, x.status), initialized)

\* ------------------------------------------------------------------------
\* The dispatcher: main/mcp_server.c
\* ------------------------------------------------------------------------

\* A plausible slip: a method missing from method_table[] falls through
\* to the last entry of the table instead of ESP_ERR_NOT_FOUND.
mcp_dispatch_method_fallthrough(method, params, out, before) ==
    CASE method = "initialize" -> mcp_handle_initialize(params)
      [] method = "tools/list" -> mcp_handle_tools_list(params)
      [] method = "tools/call" -> mcp_handle_tools_call(params, out, before)
      [] OTHER -> mcp_handle_ping(params)

\* mcp_dispatch_method over method_table[].
mcp_dispatch_method(method, params, out, before) ==
    CASE method = "initialize" -> mcp_handle_initialize(params)
      [] method = "tools/list" -> mcp_handle_tools_list(params)
      [] method = "tools/call" -> mcp_handle_tools_call(params, out, before)
      [] method = "ping" -> mcp_handle_ping(params)
      [] OTHER -> Handled("ESP_ERR_NOT_FOUND", NoResult, NoneInvoked, initialized)

\* The handler outcomes a message can meet: those of the tool it names.
OutcomesFor(m) ==
    IF m.json /\ m.method.k = "string" /\ m.method.s = "tools/call"
       /\ m.params.k = "object" /\ m.params.name.k = "string"
    THEN ToolOutcomes(m.params.name.s)
    ELSE {Silent("none")}

\* mcp_server_process_message(json_str): the response handed back to the
\* transport, none for a notification; a handler that restarts the device
\* never returns to it.
mcp_server_process_message(m, out, before) ==
    /\ UNCHANGED <<busVars, rtVars, exVars, otaVars, stVars, toolVars, logVars>>
    /\ device = "up"
    /\ msg' = m
    /\ LET p == jsonrpc_parse_message(m) IN
       IF ~p.ok
       THEN /\ response' = jsonrpc_create_error(0, JSONRPC_PARSE_ERROR, "Invalid JSON or JSON-RPC format")
            /\ invoked' = NoneInvoked
            /\ UNCHANGED <<initialized, device>>
       ELSE IF p.type = "JSONRPC_REQUEST"
       THEN LET h == mcp_dispatch_method(p.method, p.params, out, before) IN
            /\ invoked' = h.handlers
            /\ initialized' = h.initialized
            /\ device' = IF h.returns THEN "up" ELSE "restarting"
            /\ response' =
                 IF ~h.returns THEN NoResponse
                 ELSE IF h.err = "ESP_OK" /\ h.result # NoResult
                 THEN jsonrpc_create_response(p.id, h.result)
                 ELSE IF h.err = "ESP_ERR_NOT_FOUND"
                 THEN jsonrpc_create_error(p.id, JSONRPC_METHOD_NOT_FOUND, "Method not found")
                 ELSE IF h.err = "ESP_ERR_INVALID_ARG"
                 THEN jsonrpc_create_error(p.id, JSONRPC_INVALID_PARAMS, "Invalid parameters")
                 ELSE jsonrpc_create_error(p.id, JSONRPC_INTERNAL_ERROR, "Internal error")
       ELSE IF p.type = "JSONRPC_NOTIFICATION"
       THEN /\ response' = NoResponse
            /\ invoked' = NoneInvoked
            /\ UNCHANGED <<initialized, device>>
       ELSE /\ response' = jsonrpc_create_error(0, JSONRPC_INVALID_REQUEST, "Invalid message type")
            /\ invoked' = NoneInvoked
            /\ UNCHANGED <<initialized, device>>

\* esp_restart() brings the firmware up again: app_main, start_mcp_server,
\* mcp_server_init, mcp_protocol_init.
Reboot ==
    /\ UNCHANGED <<busVars, rtVars, exVars, otaVars, stVars, toolVars, logVars>>
    /\ device = "restarting"
    /\ device' = "up"
    /\ initialized' = FALSE
    /\ msg' = [json |-> FALSE, none |-> TRUE]
    /\ response' = NoResponse
    /\ invoked' = NoneInvoked

\* disconnect_handler: WIFI_EVENT_STA_DISCONNECTED stops the server.
disconnect_handler ==
    /\ UNCHANGED <<busVars, rtVars, exVars, otaVars, stVars, toolVars, logVars>>
    /\ device = "up"
    /\ device' = "offline"
    /\ UNCHANGED <<initialized, msg, response, invoked>>

\* connect_handler: IP_EVENT_STA_GOT_IP starts the server again, and
\* start_mcp_server runs mcp_server_init, so mcp_protocol_init.
connect_handler ==
    /\ UNCHANGED <<busVars, rtVars, exVars, otaVars, stVars, toolVars, logVars>>
    /\ device = "offline"
    /\ device' = "up"
    /\ initialized' = FALSE
    /\ UNCHANGED <<msg, response, invoked>>

InitMsg ==
    /\ L = NULL
    /\ lua_task_handle = NULL
    /\ lua_task_running = FALSE
    /\ vm = [v \in VMIds |-> "unused"]
    /\ task = [t \in TaskIds |-> "unused"]
    /\ taskVM = [t \in TaskIds |-> NULL]
    /\ crashed = FALSE
    /\ pc = [c \in Ctx |-> "idle"]
    /\ op = [c \in Ctx |-> "none"]
    /\ hnd = [c \in Ctx |-> NULL]
    /\ was_running = [c \in Ctx |-> FALSE]
    /\ vmIn = [c \in Ctx |-> NULL]
    /\ status = [c \in Ctx |-> "none"]
    /\ ret = [c \in Ctx |-> "none"]
    /\ calls = 0
    /\ midExec = [c \in Ctx |-> FALSE]
    /\ activeAtCall = [c \in Ctx |-> FALSE]
    /\ ExecIdle
    /\ MsgIdle
    /\ OtaIdle
    /\ StoreIdle
    /\ ToolIdle
    /\ LogIdle
    /\ BusIdle

NextMsg ==
    \/ \E m \in Messages : \E out \in OutcomesFor(m), before \in BufferBefore :
          mcp_server_process_message(m, out, before)
    \/ Reboot
    \/ disconnect_handler
    \/ connect_handler

SpecMsg == InitMsg /\ [][NextMsg]_vars

\* ------------------------------------------------------------------------
\* The OTA update state machine: main/mcp_ota.c
\* ------------------------------------------------------------------------

OtaIds == 1..MaxOtaTasks

\* The two OTA application slots.
Slots == {1, 2}

\* esp_ota_get_next_update_partition(NULL): the slot the firmware does not
\* run from.
esp_ota_get_next_update_partition(p) == IF p = 1 THEN 2 ELSE 1

\* An ota_task that does not exist, and one that xTaskCreate has made.
NoOtaTask ==
    [pc |-> "unused", total_read |-> 0, content_length |-> 0,
     failed |-> FALSE, finalised |-> FALSE, marked |-> FALSE]

NewOtaTask == [NoOtaTask EXCEPT !.pc = "created"]

\* xTaskCreate(ota_task, ...): a new task, or 0 for a failure.
xTaskCreateOta ==
    {0} \cup (IF \E t \in OtaIds : ota[t].pc = "unused"
              THEN {CHOOSE t \in OtaIds : ota[t].pc = "unused"
                                          /\ \A u \in OtaIds : ota[u].pc = "unused" => t <= u}
              ELSE {})

\* The ota_task instances that exist and have not deleted themselves.
LiveOtaTasks == {t \in OtaIds : ota[t].pc \notin {"unused", "done"}}

\* Byte counts are kept in MiB. The content lengths a server announces: a
\* small image and one sixteen times as large.
ContentLengths == {MaxChunks, 16 * MaxChunks}

\* What one turn of the model's loop adds to total_read: the run of
\* esp_http_client_read calls that brings in one MaxChunks-th of the image
\* (1 MiB when the length is unknown).
Run(content_length) ==
    IF content_length > 0 THEN content_length \div MaxChunks ELSE 1

\* An int holding x MiB-units: the value modulo 2^32 bytes, which is 4096
\* MiB, read as two's complement (what the target's 32-bit multiply
\* leaves when total_read * 100 overflows).
Int32(x) ==
    LET w == x % 4096 IN IF w >= 2048 THEN w - 4096 ELSE w

\* The / of C on ints: the quotient truncated toward zero.
Quot(a, b) ==
    IF a >= 0 THEN a \div b ELSE -((-a) \div b)

\* s_ota_progress_pct = (total_read * 100) / content_length.
Progress(total_read, content_length) ==
    Quot(Int32(total_read * 100), content_length)

\* esp_restart() with the slot states i and the boot target b: the
\* bootloader gives up an image that ran unconfirmed, boots the target
\* (the other slot when the target cannot boot), turns a new image into a
\* pending one; app_main runs mcp_ota_init, which arms the timer for a
\* pending image. The statics are those of a fresh process.
esp_restart(i, b) ==
    LET i1 == IF i[running] = "ESP_OTA_IMG_PENDING_VERIFY"
              THEN [i EXCEPT ![running] = "ESP_OTA_IMG_ABORTED"] ELSE i
        ok(p) == i1[p] \in {"ESP_OTA_IMG_NEW", "ESP_OTA_IMG_VALID"}
        r == IF ok(b) \/ ~ok(esp_ota_get_next_update_partition(b))
             THEN b ELSE esp_ota_get_next_update_partition(b)
        i2 == IF i1[r] = "ESP_OTA_IMG_NEW"
              THEN [i1 EXCEPT ![r] = "ESP_OTA_IMG_PENDING_VERIFY"] ELSE i1
    IN /\ boots < MaxBoots
       /\ boots' = boots + 1
       /\ img' = i2
       /\ running' = r
       /\ boot' = r
       /\ timer' = IF i2[r] = "ESP_OTA_IMG_PENDING_VERIFY" THEN "armed" ELSE "none"
       /\ s_ota_state' = "OTA_STATE_IDLE"
       /\ s_ota_progress_pct' = 0
       /\ s_ota_message' = "idle"
       /\ ota' = [t \in OtaIds |-> NoOtaTask]
       /\ pushRet' = "none"
       /\ UNCHANGED pushes

\* A plausible slip: the guard tests Downloading only, so a push during
\* Writing is taken.
tool_sys_ota_push_downloading_only(url_ok) ==
    /\ UNCHANGED <<busVars, rtVars, exVars, msgVars, stVars, toolVars, logVars>>
    /\ pushes < MaxPushes
    /\ pushes' = pushes + 1
    /\ UNCHANGED <<s_ota_state, s_ota_progress_pct, s_ota_message, img, running, boot,
                   timer, boots>>
    /\ IF s_ota_state = "OTA_STATE_DOWNLOADING"
       THEN pushRet' = "ESP_ERR_INVALID_STATE" /\ UNCHANGED ota
       ELSE IF ~url_ok
       THEN pushRet' = "ESP_ERR_INVALID_ARG" /\ UNCHANGED ota
       ELSE \E t \in xTaskCreateOta :
                 IF t = 0
                 THEN pushRet' = "ESP_FAIL" /\ UNCHANGED ota
                 ELSE pushRet' = "ESP_OK" /\ ota' = [ota EXCEPT ![t] = NewOtaTask]

\* tool_sys_ota_push, the url argument a non-empty string or not.
tool_sys_ota_push(url_ok) ==
    /\ UNCHANGED <<busVars, rtVars, exVars, msgVars, stVars, toolVars, logVars>>
    /\ pushes < MaxPushes
    /\ pushes' = pushes + 1
    /\ UNCHANGED <<s_ota_state, s_ota_progress_pct, s_ota_message, img, running, boot,
                   timer, boots>>
    /\ IF s_ota_state \in {"OTA_STATE_DOWNLOADING", "OTA_STATE_WRITING"}
       THEN pushRet' = "ESP_ERR_INVALID_STATE" /\ UNCHANGED ota
       ELSE IF ~url_ok
       THEN pushRet' = "ESP_ERR_INVALID_ARG" /\ UNCHANGED ota
       ELSE \/ pushRet' = "ESP_ERR_NO_MEM" /\ UNCHANGED ota
            \/ \E t \in xTaskCreateOta :
                 IF t = 0
                 THEN pushRet' = "ESP_FAIL" /\ UNCHANGED ota
                 ELSE pushRet' = "ESP_OK" /\ ota' = [ota EXCEPT ![t] = NewOtaTask]

\* ota_task, line 45: s_ota_state = OTA_STATE_DOWNLOADING.
ota_start(t) ==
    /\ UNCHANGED <<busVars, rtVars, exVars, msgVars, stVars, toolVars, logVars>>
    /\ ota[t].pc = "created"
    /\ s_ota_state' = "OTA_STATE_DOWNLOADING"
    /\ ota' = [ota EXCEPT ![t].pc = "l46"]
    /\ UNCHANGED <<s_ota_progress_pct, s_ota_message, img, running, boot, timer, boots,
                   pushes, pushRet>>

\* ota_task, lines 46-47: progress 0 and the "Connecting" message.
ota_reset(t) ==
    /\ UNCHANGED <<busVars, rtVars, exVars, msgVars, stVars, toolVars, logVars>>
    /\ ota[t].pc = "l46"
    /\ s_ota_progress_pct' = 0
    /\ s_ota_message' = "Connecting to <url>"
    /\ ota' = [ota EXCEPT ![t].pc = "begin"]
    /\ UNCHANGED <<s_ota_state, img, running, boot, timer, boots, pushes, pushRet>>

\* The failures between esp_http_client_init and esp_ota_begin.
BeginFailures ==
    {"HTTP client init failed", "HTTP open failed: <err>",
     "No OTA partition available", "OTA begin failed: <err>"}

\* ota_task, lines 49-105: open the connection, read the content length
\* (0 when unknown), pick the update slot, esp_ota_begin; any failure sets
\* Error and ends the task; success sets Writing.
ota_begin(t) ==
    /\ UNCHANGED <<busVars, rtVars, exVars, msgVars, stVars, toolVars, logVars>>
    /\ ota[t].pc = "begin"
    /\ UNCHANGED <<s_ota_progress_pct, running, boot, timer, boots, pushes, pushRet>>
    /\ \/ \E m \in BeginFailures :
            /\ s_ota_state' = "OTA_STATE_ERROR"
            /\ s_ota_message' = m
            /\ ota' = [ota EXCEPT ![t].pc = "done", ![t].failed = TRUE]
            /\ UNCHANGED img
       \/ \E len \in {0} \cup ContentLengths :
            /\ s_ota_state' = "OTA_STATE_WRITING"
            /\ ota' = [ota EXCEPT ![t].pc = "loop", ![t].content_length = len]
            /\ img' = [img EXCEPT ![esp_ota_get_next_update_partition(running)] =
                                        "ESP_OTA_IMG_UNDEFINED"]
            /\ UNCHANGED s_ota_message

\* ota_task, lines 107-131, one turn of the loop: a read error or a write
\* error sets Error and leaves the loop, an empty read leaves it, a chunk
\* is written and counted.
ota_chunk(t) ==
    /\ UNCHANGED <<busVars, rtVars, exVars, msgVars, stVars, toolVars, logVars>>
    /\ ota[t].pc = "loop"
    /\ UNCHANGED <<img, running, boot, timer, boots, pushes, pushRet>>
    /\ \/ \E m \in {"HTTP read error", "OTA write failed: <err>"} :
            /\ s_ota_state' = "OTA_STATE_ERROR"
            /\ s_ota_message' = m
            /\ ota' = [ota EXCEPT ![t].pc = "cleanup", ![t].failed = TRUE]
            /\ UNCHANGED s_ota_progress_pct
       \/ /\ ota' = [ota EXCEPT ![t].pc = "cleanup"]
          /\ UNCHANGED <<s_ota_state, s_ota_progress_pct, s_ota_message>>
       \/ /\ ota[t].total_read < MaxChunks * Run(ota[t].content_length)
          /\ ota' = [ota EXCEPT ![t].total_read = @ + Run(ota[t].content_length)]
          /\ s_ota_progress_pct' =
                IF ota[t].content_length > 0
                THEN Progress(ota[t].total_read + Run(ota[t].content_length),
                              ota[t].content_length)
                ELSE s_ota_progress_pct
          /\ s_ota_message' = "Written <n> bytes"
          /\ UNCHANGED s_ota_state

\* ota_task, lines 133-142: release the connection, then abort and end
\* the task if s_ota_state reads Error.
ota_check(t) ==
    /\ UNCHANGED <<busVars, rtVars, exVars, msgVars, stVars, toolVars, logVars>>
    /\ ota[t].pc = "cleanup"
    /\ ota' = [ota EXCEPT ![t].pc = IF s_ota_state = "OTA_STATE_ERROR" THEN "done" ELSE "end"]
    /\ UNCHANGED <<s_ota_state, s_ota_progress_pct, s_ota_message, img, running, boot,
                   timer, boots, pushes, pushRet>>

\* ota_task, lines 144-150: esp_ota_end finalises the slot or fails.
ota_end(t) ==
    /\ UNCHANGED <<busVars, rtVars, exVars, msgVars, stVars, toolVars, logVars>>
    /\ ota[t].pc = "end"
    /\ UNCHANGED <<s_ota_progress_pct, img, running, boot, timer, boots, pushes, pushRet>>
    /\ \/ /\ s_ota_state' = "OTA_STATE_ERROR"
          /\ s_ota_message' = "OTA end failed: <err>"
          /\ ota' = [ota EXCEPT ![t].pc = "done", ![t].failed = TRUE]
       \/ /\ ota' = [ota EXCEPT ![t].pc = "set_boot", ![t].finalised = TRUE]
          /\ UNCHANGED <<s_ota_state, s_ota_message>>

\* ota_task, lines 152-158: esp_ota_set_boot_partition marks the slot as
\* next-boot target or fails.
ota_set_boot(t) ==
    /\ UNCHANGED <<busVars, rtVars, exVars, msgVars, stVars, toolVars, logVars>>
    /\ ota[t].pc = "set_boot"
    /\ UNCHANGED <<s_ota_progress_pct, running, timer, boots, pushes, pushRet>>
    /\ \/ /\ s_ota_state' = "OTA_STATE_ERROR"
          /\ s_ota_message' = "Set boot partition failed: <err>"
          /\ ota' = [ota EXCEPT ![t].pc = "done", ![t].failed = TRUE]
          /\ UNCHANGED <<img, boot>>
       \/ /\ ota' = [ota EXCEPT ![t].pc = "l160", ![t].marked = TRUE]
          /\ boot' = esp_ota_get_next_update_partition(running)
          /\ img' = [img EXCEPT ![esp_ota_get_next_update_partition(running)] =
                                      "ESP_OTA_IMG_NEW"]
          /\ UNCHANGED <<s_ota_state, s_ota_message>>

\* ota_task, line 160: s_ota_state = OTA_STATE_REBOOTING.
ota_rebooting(t) ==
    /\ UNCHANGED <<busVars, rtVars, exVars, msgVars, stVars, toolVars, logVars>>
    /\ ota[t].pc = "l160"
    /\ s_ota_state' = "OTA_STATE_REBOOTING"
    /\ ota' = [ota EXCEPT ![t].pc = "l161"]
    /\ UNCHANGED <<s_ota_progress_pct, s_ota_message, img, running, boot, timer, boots,
                   pushes, pushRet>>

\* ota_task, lines 161-163: progress 100 and the completion message.
ota_complete(t) ==
    /\ UNCHANGED <<busVars, rtVars, exVars, msgVars, stVars, toolVars, logVars>>
    /\ ota[t].pc = "l161"
    /\ s_ota_progress_pct' = 100
    /\ s_ota_message' = "OTA complete, rebooting in 2s..."
    /\ ota' = [ota EXCEPT ![t].pc = "grace"]
    /\ UNCHANGED <<s_ota_state, img, running, boot, timer, boots, pushes, pushRet>>

\* ota_task, lines 165-166: the two-second delay elapses, esp_restart().
ota_restart(t) ==
    /\ UNCHANGED <<busVars, rtVars, exVars, msgVars, stVars, toolVars, logVars>>
    /\ ota[t].pc = "grace"
    /\ esp_restart(img, boot)

\* tool_sys_reboot: esp_restart() from the handler.
tool_sys_reboot ==
    /\ UNCHANGED <<busVars, rtVars, exVars, msgVars, stVars, toolVars, logVars>>
    /\ esp_restart(img, boot)

\* tool_sys_ota_rollback: esp_ota_mark_app_invalid_rollback_and_reboot()
\* marks the running image invalid and restarts into the other slot when
\* that slot holds a valid image, and returns an error otherwise.
tool_sys_ota_rollback ==
    /\ UNCHANGED <<busVars, rtVars, exVars, msgVars, stVars, toolVars, logVars>>
    /\ img[esp_ota_get_next_update_partition(running)] = "ESP_OTA_IMG_VALID"
    /\ esp_restart([img EXCEPT ![running] = "ESP_OTA_IMG_INVALID"],
                   esp_ota_get_next_update_partition(running))

\* A plausible slip: the callback finds the image pending and leaves it so.
ota_auto_confirm_timer_cb_unmarked ==
    /\ UNCHANGED <<busVars, rtVars, exVars, msgVars, stVars, toolVars, logVars>>
    /\ timer = "armed"
    /\ timer' = "fired"
    /\ UNCHANGED <<s_ota_state, s_ota_progress_pct, s_ota_message, ota, img, running, boot,
                   boots, pushes, pushRet>>

\* ota_auto_confirm_timer_cb, OTA_AUTO_CONFIRM_SEC after mcp_ota_init armed
\* the timer: esp_ota_mark_app_valid_cancel_rollback() for a running image
\* that is still pending.
ota_auto_confirm_timer_cb ==
    /\ UNCHANGED <<busVars, rtVars, exVars, msgVars, stVars, toolVars, logVars>>
    /\ timer = "armed"
    /\ timer' = "fired"
    /\ img' = IF img[running] = "ESP_OTA_IMG_PENDING_VERIFY"
              THEN [img EXCEPT ![running] = "ESP_OTA_IMG_VALID"] ELSE img
    /\ UNCHANGED <<s_ota_state, s_ota_progress_pct, s_ota_message, ota, running, boot,
                   boots, pushes, pushRet>>

\* The first boot of an image an update has just installed in slot 2:
\* pending verification, the timer armed by mcp_ota_init.
OtaFresh ==
    /\ s_ota_state = "OTA_STATE_IDLE"
    /\ s_ota_progress_pct = 0
    /\ s_ota_message = "idle"
    /\ ota = [t \in OtaIds |-> NoOtaTask]
    /\ img = [p \in Slots |-> IF p = 1 THEN "ESP_OTA_IMG_VALID" ELSE "ESP_OTA_IMG_PENDING_VERIFY"]
    /\ running = 2
    /\ boot = 2
    /\ timer = "armed"
    /\ boots = 0
    /\ pushes = 0
    /\ pushRet = "none"

InitOta ==
    /\ L = NULL
    /\ lua_task_handle = NULL
    /\ lua_task_running = FALSE
    /\ vm = [v \in VMIds |-> "unused"]
    /\ task = [t \in TaskIds |-> "unused"]
    /\ taskVM = [t \in TaskIds |-> NULL]
    /\ crashed = FALSE
    /\ pc = [c \in Ctx |-> "idle"]
    /\ op = [c \in Ctx |-> "none"]
    /\ hnd = [c \in Ctx |-> NULL]
    /\ was_running = [c \in Ctx |-> FALSE]
    /\ vmIn = [c \in Ctx |-> NULL]
    /\ status = [c \in Ctx |-> "none"]
    /\ ret = [c \in Ctx |-> "none"]
    /\ calls = 0
    /\ midExec = [c \in Ctx |-> FALSE]
    /\ activeAtCall = [c \in Ctx |-> FALSE]
    /\ ExecIdle
    /\ MsgIdle
    /\ (OtaIdle \/ OtaFresh)
    /\ StoreIdle
    /\ ToolIdle
    /\ LogIdle
    /\ BusIdle

NextOta ==
    \/ \E url_ok \in BOOLEAN : tool_sys_ota_push(url_ok)
    \/ \E t \in OtaIds : ota_start(t)
    \/ \E t \in OtaIds : ota_reset(t)
    \/ \E t \in OtaIds : ota_begin(t)
    \/ \E t \in OtaIds : ota_chunk(t)
    \/ \E t \in OtaIds : ota_check(t)
    \/ \E t \in OtaIds : ota_end(t)
    \/ \E t \in OtaIds : ota_set_boot(t)
    \/ \E t \in OtaIds : ota_rebooting(t)
    \/ \E t \in OtaIds : ota_complete(t)
    \/ \E t \in OtaIds : ota_restart(t)
    \/ tool_sys_reboot
    \/ tool_sys_ota_rollback
    \/ ota_auto_confirm_timer_cb

SpecOta == InitOta /\ [][NextOta]_vars

\* The esp_timer service runs the callback of an armed timer.
SpecOtaLive == SpecOta /\ WF_vars(ota_auto_confirm_timer_cb)

\* ------------------------------------------------------------------------
\* Specification of the script store tools
\* ------------------------------------------------------------------------

NextStore ==
    \/ \E n \in ScriptNames \cup {NoName}, c \in Contents, append \in BOOLEAN :
          tool_lua_push_script(n, c, append)
    \/ \E n \in ScriptNames \cup {NoName} : tool_lua_get_script(n)

SpecStore == InitMsg /\ [][NextStore]_vars

\* ------------------------------------------------------------------------
\* Specification of the serializer: every value tree is serialized
\* ------------------------------------------------------------------------

NextCodec == \E value \in Trees : serialize(value)

SpecCodec == InitMsg /\ [][NextCodec]_vars

\* ------------------------------------------------------------------------
\* Specification of lua_bind_dependency: the calls arrive on the two
\* servers while app_main brings the runtime up
\* ------------------------------------------------------------------------

NextBind ==
    \/ \E c \in Transports, a \in BindCalls : tool_lua_bind_dependency(c, a)
    \/ \E c \in Ctx : lua_runtime_init(c)
    \/ \E c \in Ctx : start_check(c)
    \/ \E c \in Ctx : start_create(c)
    \/ \E c \in Ctx : restart_check(c)
    \/ \E c \in Ctx : restart_delete(c)
    \/ \E c \in Ctx : restart_clear(c)
    \/ \E c \in Ctx : restart_destroy(c)
    \/ \E c \in Ctx : restart_create(c)
    \/ \E t \in TaskIds : task_run(t)
    \/ \E t \in TaskIds : task_finish(t)

SpecBind == Init /\ [][NextBind]_vars

\* ------------------------------------------------------------------------
\* Specification of the log capture: three tasks log, the servers read
\* ------------------------------------------------------------------------

NextLog ==
    \/ \E k \in LogTasks, l \in Lines : log_forward(k, l)
    \/ \E k \in LogTasks : log_take(k)
    \/ \E k \in LogTasks : log_timeout(k)
    \/ \E k \in LogTasks : log_store(k)
    \/ \E k \in LogTasks : get_logs_take(k)
    \/ \E k \in LogTasks : get_logs_give(k)

SpecLog == InitMsg /\ [][NextLog]_vars

\* The ring after the lines ls have been logged and stored one after
\* another on top of mcp_log_init's line.
History(ls) ==
    <<InitEntry>> \o [i \in 1..Len(ls) |->
                        Entry([prefix |-> ls[i].prefix, text |-> ls[i].text, call |-> i])]

\* The lines stored before a sys_get_logs call: those of Lines that are
\* not empty, and a debug line.
QueryLines ==
    {l \in Lines : l.text # <<>>}
        \cup {[prefix |-> "D", text |-> <<Rep("D", 1), Rep("b", 9)>>]}

InitQuery ==
    /\ L = NULL
    /\ lua_task_handle = NULL
    /\ lua_task_running = FALSE
    /\ vm = [v \in VMIds |-> "unused"]
    /\ task = [t \in TaskIds |-> "unused"]
    /\ taskVM = [t \in TaskIds |-> NULL]
    /\ crashed = FALSE
    /\ pc = [c \in Ctx |-> "idle"]
    /\ op = [c \in Ctx |-> "none"]
    /\ hnd = [c \in Ctx |-> NULL]
    /\ was_running = [c \in Ctx |-> FALSE]
    /\ vmIn = [c \in Ctx |-> NULL]
    /\ status = [c \in Ctx |-> "none"]
    /\ ret = [c \in Ctx |-> "none"]
    /\ calls = 0
    /\ midExec = [c \in Ctx |-> FALSE]
    /\ activeAtCall = [c \in Ctx |-> FALSE]
    /\ ExecIdle
    /\ MsgIdle
    /\ OtaIdle
    /\ StoreIdle
    /\ ToolIdle
    /\ \E ls \in SeqsOf(QueryLines, MaxLogs) :
          /\ stored = History(ls)
          /\ s_log_ring = [i \in 0..(LOG_MAX_LINES - 1) |->
                LET ps == {p \in 1..Len(History(ls)) : (p - 1) % LOG_MAX_LINES = i}
                IN  IF ps = {} THEN NoEntry
                    ELSE History(ls)[CHOOSE p \in ps : \A q \in ps : q <= p]]
          /\ s_log_head = Len(History(ls)) % LOG_MAX_LINES
          /\ s_log_count = (IF Len(History(ls)) < LOG_MAX_LINES
                            THEN Len(History(ls)) ELSE LOG_MAX_LINES)
          /\ logs = Len(ls)
          /\ console = [i \in 1..Len(ls) |->
                          [prefix |-> ls[i].prefix, text |-> ls[i].text, call |-> i]]
    /\ s_log_mutex = "free"
    /\ lpc = [k \in LogTasks |-> "idle"]
    /\ line = [k \in LogTasks |-> NoLine]
    /\ query = NoQuery
    /\ BusIdle

NextQuery == \E args \in LogArgs : tool_sys_get_logs(args)

SpecQuery == InitQuery /\ [][NextQuery]_vars

\* The runtime after app_main has started it and main.lua has returned:
\* one VM, no lua_task, both servers waiting for a tool call; the bus as
\* the firmware starts with it, or set up with no device or with one slot
\* of the pool left.
InitBus ==
    /\ L = 1
    /\ lua_task_handle = NULL
    /\ lua_task_running = FALSE
    /\ vm = [v \in VMIds |-> IF v = 1 THEN "live" ELSE "unused"]
    /\ task = [t \in TaskIds |-> IF t = 1 THEN "deleted" ELSE "unused"]
    /\ taskVM = [t \in TaskIds |-> IF t = 1 THEN 1 ELSE NULL]
    /\ crashed = FALSE
    /\ pc = [c \in Ctx |-> "idle"]
    /\ op = [c \in Ctx |-> "none"]
    /\ hnd = [c \in Ctx |-> NULL]
    /\ was_running = [c \in Ctx |-> FALSE]
    /\ vmIn = [c \in Ctx |-> NULL]
    /\ status = [c \in Ctx |-> "none"]
    /\ ret = [c \in Ctx |-> IF c = "main" THEN "ESP_OK" ELSE "none"]
    /\ calls = 0
    /\ midExec = [c \in Ctx |-> FALSE]
    /\ activeAtCall = [c \in Ctx |-> FALSE]
    /\ ExecIdle
    /\ MsgIdle
    /\ OtaIdle
    /\ store = [n \in StoredNames |->
                   CASE n = "main.lua" -> File(<<default_main_lua>>)
                     [] n = "bindings.lua" -> File(<<default_bindings_lua>>)
                     [] OTHER -> NoFile]
    /\ got = [op |-> "none", name |-> "", ret |-> "none", text |-> <<>>, message |-> "",
              content |-> <<>>, append |-> FALSE, before |-> <<>>]
    /\ edits = 0
    /\ taskScript = [t \in 1..MaxTasks |->
                        IF t = 1 THEN File(<<default_main_lua>>) ELSE NoFile]
    /\ ToolIdle
    /\ LogIdle
    /\ (BusIdle \/ BusWith(0) \/ BusWith(I2C_MAX_DEVICES - 1))

NextBus ==
    \/ \E c \in Transports : Call(c, "exec")
    \/ \E c \in Transports : exec_checkL(c)
    \/ \E c \in Transports : exec_check(c)
    \/ \E c \in Transports : exec_dostring(c)
    \/ \E c \in Transports : exec_finish(c)
    \/ \E c \in Transports, fn \in Transfers, a \in Addrs : i2c_lookup(c, fn, a)
    \/ \E c \in Transports : i2c_add(c)
    \/ \E c \in Transports : i2c_store(c)
    \/ \E c \in Transports : i2c_transfer(c)
    \/ \E c \in Transports : i2c_setup_clean(c)
    \/ \E c \in Transports : i2c_setup_new(c)

SpecBus == InitBus /\ [][NextBus]_vars

\* ------------------------------------------------------------------------
\* Claims about the runtime lifecycle (checked under Spec)
\* ------------------------------------------------------------------------

\* Context c returns from API function o in this step.
Returns(c, o) ==
    /\ op[c] = o
    /\ pc[c] # "idle"
    /\ pc'[c] = "idle"

\* C1: at every instant at most one execution context (a lua_task inside
\* luaL_dofile, or a caller inside luaL_dostring) is executing in a Lua VM,
\* for every interleaving of start, restart and exec with the lua_task.
C1_OneContextInVM ==
    \A v \in VMIds : InVM(v) <= 1

\* C2: when a lua_restart that was issued while a lua_task was inside
\* main.lua returns ESP_OK (so the VM and the task were created), exactly
\* one background context exists: not zero, not two.
C2_RestartLeavesOneContext ==
    [][\A c \in Transports :
          (Returns(c, "restart") /\ midExec[c] /\ ret'[c] = "ESP_OK")
              => Cardinality(ActiveTasks') = 1]_vars

\* C3: at every instant at most one Lua VM instance is live (created and
\* not closed), for every interleaving of init, restart and exec.
C3_AtMostOneVM ==
    Cardinality({v \in VMIds : vm[v] = "live"}) <= 1

\* C4: whenever lua_runtime_restart executes destroy_vm, no background
\* context is active and nothing is executing in the VM being destroyed.
C4_DestroyOnlyWhenQuiescent ==
    [][\A c \in Ctx :
          (pc[c] = "r_destroy" /\ pc'[c] = "r_create")
              => (ActiveTasks = {} /\ (L # NULL => InVM(L) = 0))]_vars

\* C5: lua_runtime_start creates a task only when no background context is
\* active, answers ESP_ERR_INVALID_STATE and creates none when one is, and
\* the number of background contexts never exceeds one.
C5_StartLaunchesAtMostOne ==
    [][/\ \A c \in Ctx :
             (pc[c] = "s_create" /\ pc'[c] = "idle" /\ task' # task)
                 => (ActiveTasks = {} /\ Cardinality(ActiveTasks') = 1)
       /\ \A c \in Ctx :
             (pc[c] = "s_check" /\ pc'[c] # "s_check" /\ ActiveTasks # {})
                 => (task' = task /\ pc'[c] = "idle")
       /\ Cardinality(ActiveTasks') <= 1]_vars

\* C6: no background context is active while the snippet of
\* lua_runtime_exec runs, and when exec returns (snippet succeeded or
\* raised) a background context is active if and only if one was active
\* when exec was called.
C6_ExecPausesAndRestores ==
    [][/\ \A c \in Ctx : pc'[c] = "e_in_vm" => ActiveTasks' = {}
       /\ \A c \in Transports :
             (Returns(c, "exec") /\ ret'[c] \in {"ESP_OK", "ESP_FAIL"})
                 => (activeAtCall[c] <=> ActiveTasks' # {})]_vars

\* ------------------------------------------------------------------------
\* Claims about lua_runtime_exec's result (checked under SpecExec)
\* ------------------------------------------------------------------------

\* C7: whatever lua_exec calls came before, lua_runtime_exec reports
\* success with the rendering of the value the snippet left on top of the
\* stack, success with exactly "ok" when the snippet leaves no value, and
\* failure with "error: <message>" when the snippet raises.
C7_ExecReportsSnippetResult ==
    /\ (snippet.kind = "return" /\ snippet.vals # <<>>)
          => (execRet = "ESP_OK" /\ result = luaL_tolstring(snippet.vals[Len(snippet.vals)]))
    /\ (snippet.kind = "return" /\ snippet.vals = <<>>)
          => (execRet = "ESP_OK" /\ result = "ok")
    /\ snippet.kind = "raise"
          => (execRet = "ESP_FAIL" /\ result = "error: " \o snippet.err)

\* ------------------------------------------------------------------------
\* Claims about the dispatcher (checked under SpecMsg)
\* ------------------------------------------------------------------------

\* The last message, as jsonrpc_parse_message classifies it.
IsRequest == msg.json /\ jsonrpc_parse_message(msg).ok /\ jsonrpc_parse_message(msg).type = "JSONRPC_REQUEST"

IsNotification == msg.json /\ jsonrpc_parse_message(msg).ok /\ jsonrpc_parse_message(msg).type = "JSONRPC_NOTIFICATION"

\* The last message is a tools/call request whose params carry a string name.
IsNamedToolsCall ==
    /\ IsRequest
    /\ msg.method.s = "tools/call"
    /\ msg.params.k = "object"
    /\ msg.params.name.k = "string"

\* C8: mcp_server_process_message produces exactly one response for every
\* valid request that carries an id, whatever the method and the handler
\* outcome, and no response for a notification.
C8_OneResponsePerRequest ==
    /\ IsRequest => response.kind \in {"result", "error"}
    /\ IsNotification => response = NoResponse

\* C9: a tools/call request naming a tool that is not in the registry gets
\* a success envelope whose payload has isError true and the text
\* "Tool not found: <name>", and no tool handler is invoked.
C9_UnknownToolIsPayloadError ==
    (IsNamedToolsCall /\ msg.params.name.s \notin Registry) =>
        /\ response.kind = "result"
        /\ "isError" \in DOMAIN response.result
        /\ response.result.isError = TRUE
        /\ response.result.content =
              <<[type |-> "text", text |-> "Tool not found: " \o msg.params.name.s]>>
        /\ invoked = Invoked("tools/call", "none", "none")

\* A request with id 1 for the unregistered tool "nonexistent" has been
\* answered.
C9_UnknownToolCalled ==
    /\ msg = Object("2.0", [k |-> "number", n |-> 1], Method("tools/call"),
                    [k |-> "object", name |-> [k |-> "string", s |-> "nonexistent"]],
                    FALSE, FALSE)
    /\ response.kind = "result"
    /\ response.id = [k |-> "number", n |-> 1]
    /\ invoked.method = "tools/call"

\* C10: every tools/call request whose params carry a string name gets a
\* success envelope with one text content block, and isError is present
\* exactly when the tool was not found or its handler returned a status
\* other than ESP_OK.
C10_FailuresBecomeFlaggedText ==
    IsNamedToolsCall =>
        /\ response.kind = "result"
        /\ Len(response.result.content) = 1
        /\ response.result.content[1].type = "text"
        /\ ("isError" \in DOMAIN response.result)
              <=> (msg.params.name.s \notin Registry \/ invoked.ret # "ESP_OK")

\* The text of the one content block of the last response.
ResponseText == response.result.content[1].text

\* The texts the handler of a tool writes into the result buffer.
HandlerTexts(name) == {o.text : o \in {x \in ToolOutcomes(name) : x.written}}

\* C11: when a tool handler returns a failure status, the text of the
\* tools/call result is the handler's own message or the generic
\* "Tool execution failed: <status>" message, whatever the result buffer
\* held before the call.
C11_FailedToolTextIsMessage ==
    (IsNamedToolsCall /\ invoked.tool # "none" /\ invoked.ret \notin {"ESP_OK", "none"}) =>
        ResponseText \in HandlerTexts(invoked.tool) \cup {"Tool execution failed: " \o invoked.ret}

\* m is a request whose method is none of initialize, tools/list,
\* tools/call, ping.
UnknownMethodRequest(m) ==
    /\ m.json
    /\ jsonrpc_parse_message(m).ok
    /\ jsonrpc_parse_message(m).type = "JSONRPC_REQUEST"
    /\ jsonrpc_parse_message(m).method \notin {"initialize", "tools/list", "tools/call", "ping"}

\* C12: a request whose method is not one of initialize, tools/list,
\* tools/call, ping gets the error response -32601 "Method not found" and
\* invokes no handler: the dispatcher state, the scripting runtime and the
\* OTA session are unchanged.
C12_UnknownMethodNotFound ==
    [][(device = "up" /\ device' # "offline" /\ UnknownMethodRequest(msg')) =>
          /\ response' = jsonrpc_create_error(jsonrpc_parse_message(msg').id,
                                              JSONRPC_METHOD_NOT_FOUND, "Method not found")
          /\ invoked' = NoneInvoked
          /\ UNCHANGED <<busVars, initialized, device, rtVars, exVars, otaVars, stVars, toolVars, logVars>>]_vars

\* A resources/list request with id 1 has been answered while the
\* dispatcher was initialized.
C12_UnknownMethodAnswered ==
    /\ msg = Object("2.0", [k |-> "number", n |-> 1], Method("resources/list"),
                    [k |-> "absent"], FALSE, FALSE)
    /\ response.kind = "error"
    /\ initialized
    /\ device = "up"

\* C13: the dispatcher becomes initialized only by a successful initialize
\* call, and while the firmware keeps running (server re-initialisation on
\* network reconnect included) it never goes from initialized back to
\* uninitialized.
C13_InitializedNeverReverts ==
    [][/\ (initialized /\ device # "restarting") => initialized'
       /\ (~initialized /\ initialized') =>
             (invoked'.method = "initialize" /\ response'.kind = "result")]_vars

\* ------------------------------------------------------------------------
\* Claims about the OTA state machine (checked under SpecOta, SpecOtaLive)
\* ------------------------------------------------------------------------

\* The ota_task instances whose operation has reached neither Rebooting
\* nor Error.
InFlight ==
    {t \in OtaIds : /\ ota[t].pc \notin {"unused", "done", "l161", "grace"}
                    /\ ~ota[t].failed}

\* C14: at most one OTA operation is in flight: once a push has been
\* accepted, no second ota_task exists until the first operation has
\* reached Rebooting or Error.
C14_OneOtaInFlight == Cardinality(InFlight) <= 1

\* The step is a sys_ota_push call.
PushStep == pushes' # pushes

\* C15: sys_ota_push called while the state is Downloading or Writing
\* returns ESP_ERR_INVALID_STATE, spawns no task, and leaves the state, the
\* progress percentage and the status message unchanged.
C15_PushRejectedWhileBusy ==
    [][(PushStep /\ s_ota_state \in {"OTA_STATE_DOWNLOADING", "OTA_STATE_WRITING"}) =>
          /\ pushRet' = "ESP_ERR_INVALID_STATE"
          /\ ota' = ota
          /\ UNCHANGED <<s_ota_state, s_ota_progress_pct, s_ota_message>>]_vars

\* A push has been rejected while a session was writing at 50 %.
C15_PushRejectedAtHalf ==
    /\ pushRet = "ESP_ERR_INVALID_STATE"
    /\ s_ota_state = "OTA_STATE_WRITING"
    /\ s_ota_progress_pct = 50
    /\ Cardinality(LiveOtaTasks) = 1

\* C16: sys_ota_push called while the state is Idle or Error is accepted
\* when its url is a non-empty string and memory allows, and spawns one
\* task; and a session, from its reset to 0 % until its first chunk is
\* written, reads progress 0, with state Downloading until esp_ota_begin.
C16_PushStartsFreshSession ==
    [][/\ (PushStep /\ s_ota_state \in {"OTA_STATE_IDLE", "OTA_STATE_ERROR"}
             /\ pushRet' \notin {"ESP_ERR_INVALID_ARG", "ESP_ERR_NO_MEM", "ESP_FAIL"}) =>
             /\ pushRet' = "ESP_OK"
             /\ Cardinality({t \in OtaIds : ota[t].pc = "unused" /\ ota'[t].pc = "created"}) = 1
       /\ \A t \in OtaIds :
             /\ ota'[t].pc = "begin" =>
                   (s_ota_state' = "OTA_STATE_DOWNLOADING" /\ s_ota_progress_pct' = 0)
             /\ (ota'[t].pc = "loop" /\ ota'[t].total_read = 0) => s_ota_progress_pct' = 0]_vars

\* C17: once the state is Rebooting it does not change until the device
\* restarts; once it is Error it stays Error until the device restarts or
\* the task of a newly accepted push starts; and a session that has set
\* Error marks no slot afterwards.
C17_RebootingAndErrorTerminal ==
    [][/\ s_ota_state = "OTA_STATE_REBOOTING" =>
             (s_ota_state' = "OTA_STATE_REBOOTING" \/ boots' # boots)
       /\ (s_ota_state = "OTA_STATE_ERROR" /\ s_ota_state' # "OTA_STATE_ERROR") =>
             (\/ boots' # boots
              \/ \E t \in OtaIds : ota[t].pc = "created" /\ ota'[t].pc = "l46")
       /\ \A t \in OtaIds :
             (ota[t].failed /\ boots' = boots) => ota'[t].marked = ota[t].marked]_vars

\* C18: a session in which an HTTP read, a flash write or the finalisation
\* of the slot has failed goes no further than its cleanup: it does not
\* finalise or mark the slot and does not reach the restart.
C18_FailedSessionNeverActivates ==
    \A t \in OtaIds :
        ota[t].failed => (ota[t].pc \in {"cleanup", "done"} /\ ~ota[t].marked)

\* C19: on success the slot is finalised, then marked as next-boot target,
\* then the state becomes Rebooting with progress 100, then the grace
\* delay runs and the device restarts: a task in its grace delay, about to
\* call esp_restart, sees state Rebooting, progress 100 and its slot
\* finalised and marked.
C19_RestartOnlyWhenRebooting ==
    \A t \in OtaIds :
        /\ ota[t].marked => ota[t].finalised
        /\ ota[t].pc \in {"l160", "l161", "grace"} => ota[t].marked
        /\ ota[t].pc = "grace" =>
              /\ s_ota_state = "OTA_STATE_REBOOTING"
              /\ s_ota_progress_pct = 100

\* The confirm timer is armed by a boot exactly when the booted image is
\* pending verification, and when it fires it marks a still pending image
\* valid and touches no other.
TimerArmedAndFiresRight ==
    [][/\ boots' # boots =>
             (timer' = "armed" <=> img'[running'] = "ESP_OTA_IMG_PENDING_VERIFY")
       /\ (timer = "armed" /\ timer' = "fired") =>
             img' = IF img[running] = "ESP_OTA_IMG_PENDING_VERIFY"
                    THEN [img EXCEPT ![running] = "ESP_OTA_IMG_VALID"] ELSE img
       /\ (timer # "armed" /\ boots' = boots) => timer' = timer]_vars

\* C20 as stated: a freshly booted image that is pending verification is
\* eventually confirmed.
C20_PendingEventuallyConfirmed ==
    /\ TimerArmedAndFiresRight
    /\ \A p \in Slots :
          (running = p /\ img[p] = "ESP_OTA_IMG_PENDING_VERIFY") ~> (img[p] = "ESP_OTA_IMG_VALID")

\* C20: a freshly booted image that is pending verification is eventually
\* confirmed by the one-shot timer unless the device restarts before the
\* grace window has elapsed (the image is then given up); the timer is
\* armed exactly when the booted image is pending, and it never touches a
\* confirmed image.
C20_PendingConfirmedUnlessRestart ==
    /\ TimerArmedAndFiresRight
    /\ \A p \in Slots :
          (running = p /\ img[p] = "ESP_OTA_IMG_PENDING_VERIFY")
             ~> (img[p] \in {"ESP_OTA_IMG_VALID", "ESP_OTA_IMG_ABORTED", "ESP_OTA_IMG_INVALID"})

\* The timer has fired on the image installed in slot 2 and confirmed it.
C20_TimerConfirmedImage ==
    /\ timer = "fired"
    /\ running = 2
    /\ img[2] = "ESP_OTA_IMG_VALID"
    /\ boots = 0

\* ------------------------------------------------------------------------
\* Claims about the script store (checked under SpecStore and Spec)
\* ------------------------------------------------------------------------

\* C21: lua_push_script(name, content) in overwrite mode followed by
\* lua_get_script(name) returns exactly content, and a push with
\* append=true followed by lua_get_script(name) returns exactly the former
\* content concatenated with the appended one.
C21_GetReturnsWhatWasPushed ==
    [][(got.op = "push" /\ got.ret = "ESP_OK" /\ got'.op = "get" /\ got'.name = got.name) =>
          /\ got'.ret = "ESP_OK"
          /\ got'.text = IF got.append THEN got.before \o got.content ELSE got.content]_vars

\* C22: lua_get_script on a name that is not in the store returns
\* ESP_ERR_NOT_FOUND, which the tool result flags as an error, and leaves
\* the store unchanged.
C22_GetMissingIsNotFound ==
    [][(got'.op = "get" /\ got'.name # NoName /\ ~store[got'.name].exists) =>
          /\ got'.ret = "ESP_ERR_NOT_FOUND"
          /\ mcp_tools_execute("lua_get_script", Outcome(got'.ret, got'.message), "").is_error
          /\ store' = store]_vars

\* lua_get_script("x.lua") has failed on a store that holds main.lua only.
C22_MissingScriptAsked ==
    /\ got.op = "get"
    /\ got.name = "x.lua"
    /\ got.ret = "ESP_ERR_NOT_FOUND"
    /\ ~store["x.lua"].exists
    /\ store["main.lua"].exists

\* The operation context c is carrying out when it is inside
\* lua_runtime_start: app_main calls start, a server restart or exec.
Operation(c) == IF c = "main" THEN "start" ELSE op[c]

\* A lua_task is launched in this step by context c, which is inside
\* lua_runtime_start.
Launches(c, t) ==
    /\ task[t] = "unused"
    /\ task'[t] = "created"
    /\ pc[c] = "s_create"
    /\ pc'[c] = "idle"

\* C23 as stated: a push of the entry point leaves the runtime and the
\* running context as they are, and the edited entry point starts
\* executing only in a lua_task launched by the restart or the start
\* operation, by no other operation.
C23_EditRunsOnlyByRestartOrStart ==
    [][/\ store' # store => UNCHANGED <<busVars, rtVars, taskScript>>
       /\ \A t \in TaskIds :
             (task[t] = "unused" /\ task'[t] # "unused") =>
                 \E c \in Ctx : Launches(c, t) /\ Operation(c) \in {"start", "restart"}]_vars

\* C23, amended: a push of the entry point leaves the runtime and the
\* running context as they are; a running lua_task keeps the version it
\* loaded; a version starts executing only when a lua_task launched by
\* lua_runtime_start enters luaL_dofile, and it is the stored one;
\* lua_runtime_start runs inside start, restart and exec.
C23_EditRunsOnlyByStart ==
    [][/\ store' # store => UNCHANGED <<busVars, rtVars, taskScript>>
       /\ \A t \in TaskIds :
             /\ (task[t] = "running" /\ task'[t] = "running") => taskScript'[t] = taskScript[t]
             /\ (task[t] # "running" /\ task'[t] = "running") =>
                   (task[t] = "created" /\ taskScript'[t] = store["main.lua"])
             /\ (task[t] = "unused" /\ task'[t] # "unused") =>
                   \E c \in Ctx : Launches(c, t) /\ Operation(c) \in {"start", "restart", "exec"}]_vars

\* After an edit of main.lua a lua_task runs the edited version, an
\* earlier task having run the default one.
C23_EditedEntryPointRuns ==
    /\ edits = 1
    /\ \E t \in TaskIds : task[t] = "running" /\ taskScript[t] = File(<<[text |-> "return 1", len |-> 8]>>)
    /\ \E t \in TaskIds : task[t] = "deleted" /\ taskScript[t] = File(<<default_main_lua>>)

\* C24: when lua_runtime_restart returns ESP_OK, the VM in L is live and is
\* not the VM that was in L when restart was called, and every lua_task
\* inside luaL_dofile runs in that VM: none in an earlier VM.
C24_RestartRunsInFreshVM ==
    [][\A c \in Transports :
          (Returns(c, "restart") /\ ret'[c] = "ESP_OK") =>
              /\ L' # NULL
              /\ vm'[L'] = "live"
              /\ \A t \in TaskIds : task'[t] = "running" => taskVM'[t] = L']_vars

\* ------------------------------------------------------------------------
\* Claims about lua_bind_dependency (checked under SpecBind)
\* ------------------------------------------------------------------------

\* The arguments of a call are valid and the script built from them fits.
ValidBind(a) ==
    /\ a.object
    /\ a.provider.k = "string" /\ a.provider.s # <<>>
    /\ a.interface.k = "absent" \/ (a.interface.k = "string" /\ a.interface.s # <<>>)
    /\ a.opts.k \in {"absent", "object"}
    /\ a.restart.k \in {"absent", "true", "false"}
    /\ bindings_script(a).ok

\* This step is a call of lua_bind_dependency.
BindCalled == bind'.n # bind.n

C26_FailedBindHasNoEffect ==
    [][(BindCalled /\ ~ValidBind(bind'.args)) =>
          /\ bind'.ret # "ESP_OK"
          /\ mcp_tools_execute("lua_bind_dependency", Outcome(bind'.ret, bind'.text), "").is_error
          /\ store' = store
          /\ UNCHANGED <<L, lua_task_handle, lua_task_running, vm, task, taskVM, crashed>>
          /\ ~bind'.restarts
          /\ pc'[bind'.ctx] = "idle"]_vars

\* A call whose opts overflow the buffer has failed, bindings.lua still
\* being the default document.
C26_OverflowReported ==
    /\ bind.args.opts = HugeOpts
    /\ bind.ret = "ESP_ERR_INVALID_SIZE"
    /\ store["bindings.lua"] = File(<<default_bindings_lua>>)

\* ------------------------------------------------------------------------
\* Claims about the serializer (checked under SpecCodec)
\* ------------------------------------------------------------------------

\* C27: the text serialize_cjson_to_lua produces for a value tree, read
\* back by the Lua reader, is a value equivalent to the tree, and no other
\* tree serializes to a text that reads back as the same value.
C27_SerializationRoundTrips ==
    lua.ok =>
        /\ Equivalent(tree, lua_load(lua.text))
        /\ \A other \in Trees :
              (/\ serialize_cjson_to_lua(other, BindingsBufferSize).ok
               /\ lua_load(serialize_cjson_to_lua(other, BindingsBufferSize).text) = lua_load(lua.text))
                  => other = tree

\* ------------------------------------------------------------------------
\* Claims about the message codec (checked under SpecMsg)
\* ------------------------------------------------------------------------

\* C28: a message is accepted only when its jsonrpc member is the string
\* "2.0"; for any other value, or without the member, parsing fails and
\* the response is the error -32700, no handler having been invoked.
C28_OnlyVersion2Accepted ==
    /\ (msg.json /\ jsonrpc_parse_message(msg).ok) => msg.jsonrpc = "2.0"
    /\ (msg.json /\ msg.jsonrpc # "2.0") =>
          /\ ~jsonrpc_parse_message(msg).ok
          /\ response.kind = "error"
          /\ response.code = JSONRPC_PARSE_ERROR
          /\ invoked = NoneInvoked

\* A ping request of version "1.0" has been answered.
C28_OtherVersionRejected ==
    /\ msg.json
    /\ msg.jsonrpc = "1.0"
    /\ msg.method = Method("ping")
    /\ msg.id.k = "number"
    /\ response.kind = "error"

Stored(n) == \E i \in 0..(LOG_MAX_LINES - 1) : s_log_ring[i].call = n

\* The original output has printed the line of log call n.
Forwarded(n) == \E i \in 1..Len(console) : console[i].call = n

\* C30: a task waiting for the log mutex always either gets it or gives
\* up after the timeout; when it gives up, the ring, its head and its
\* count are unchanged and the line is dropped, and the line has been
\* forwarded to the original output.
C30_ContendedLineDroppedNotBlocked ==
    /\ [](\A k \in LogTasks : lpc[k] = "take" => ENABLED (log_take(k) \/ log_timeout(k)))
    /\ [][\A k \in LogTasks :
             (lpc[k] = "take" /\ lpc'[k] = "idle") =>
                 /\ s_log_mutex # "free"
                 /\ UNCHANGED <<s_log_ring, s_log_head, s_log_count>>
                 /\ ~Stored(line[k].call)'
                 /\ Forwarded(line[k].call)]_vars

\* A line was dropped: its task is back from the hook, the line is on the
\* original output and in no slot of the ring, which has not wrapped.
C30_LineDropped ==
    \E k \in LogTasks :
        /\ lpc[k] = "idle"
        /\ line[k].text # <<>>
        /\ Forwarded(line[k].call)
        /\ ~Stored(line[k].call)
        /\ s_log_count < LOG_MAX_LINES

\* ------------------------------------------------------------------------
\* Claims about the runtime's task handle and VM pointer (checked under Spec)
\* ------------------------------------------------------------------------

\* C36: whenever restart or exec is about to call vTaskDelete, the handle
\* it passes (the one its if () read, or a fresh load of lua_task_handle)
\* is neither NULL nor the handle of a task that is already deleted, also
\* when lua_task finishes on its own after the handle was tested.
C36_DeleteTargetsLiveTask ==
    \A c \in Ctx :
        pc[c] \in {"r_delete", "e_delete"} =>
            \A h \in {hnd[c], lua_task_handle} :
                /\ h # NULL
                /\ task[h] # "deleted"

\* C37: whenever a lua_task exists or a caller is inside luaL_dostring,
\* the VM pointer L is not NULL.
C37_VMPresentWhileLuaRuns ==
    (ActiveTasks # {} \/ \E c \in Ctx : pc[c] = "e_in_vm") => L # NULL

\* ------------------------------------------------------------------------
\* Claims about the evaluation stack (checked under SpecExec)
\* ------------------------------------------------------------------------

\* C38: every lua_runtime_exec call leaves the evaluation stack of the VM
\* at the depth it found it, whether the snippet returns no value, one
\* value or several, or raises, so that no value of one snippet is left
\* for a later call.
C38_ExecLeavesStackDepth ==
    [][snippet'.kind \in {"return", "raise"} => Len(stack') = Len(stack)]_vars

\* ------------------------------------------------------------------------
\* Claims about the response identifier (checked under SpecMsg)
\* ------------------------------------------------------------------------

\* C35: the response to a request whose id is the integer n, a result or
\* an error whatever the handler's outcome, carries the identifier n.
C35_ResponseCarriesRequestId ==
    (IsRequest /\ msg.id.k = "number" /\ response.kind \in {"result", "error"})
        => response.id = [k |-> "number", n |-> msg.id.n]

\* ------------------------------------------------------------------------
\* Claims about the OTA state and progress (checked under SpecOta)
\* ------------------------------------------------------------------------

\* C32: within one run of the firmware s_ota_state changes only along
\* Idle -> Downloading, Error -> Downloading, Downloading -> Writing,
\* Downloading -> Error, Writing -> Error and Writing -> Rebooting; Writing
\* is entered only from Downloading and nothing returns to Idle.
C32_OtaStateFollowsGraph ==
    [][(boots' = boots /\ s_ota_state' # s_ota_state) =>
          <<s_ota_state, s_ota_state'>> \in
              {<<"OTA_STATE_IDLE", "OTA_STATE_DOWNLOADING">>,
               <<"OTA_STATE_ERROR", "OTA_STATE_DOWNLOADING">>,
               <<"OTA_STATE_DOWNLOADING", "OTA_STATE_WRITING">>,
               <<"OTA_STATE_DOWNLOADING", "OTA_STATE_ERROR">>,
               <<"OTA_STATE_WRITING", "OTA_STATE_ERROR">>,
               <<"OTA_STATE_WRITING", "OTA_STATE_REBOOTING">>}]_vars

\* C39: the progress percentage is between 0 and 100 in every reachable
\* state, whatever the content length and the number of bytes read.
C39_ProgressWithinRange ==
    s_ota_progress_pct \in 0..100

\* ------------------------------------------------------------------------
\* Claims about the ring and sys_get_logs (checked under SpecLog, SpecQuery)
\* ------------------------------------------------------------------------

\* The index sys_get_logs starts its walk at: the oldest entry.
Oldest == IF s_log_count < LOG_MAX_LINES THEN 0 ELSE s_log_head

\* C40: after any sequence of stored lines, s_log_head is within
\* 0..LOG_MAX_LINES-1, s_log_count within 0..LOG_MAX_LINES, head equals
\* count while the ring has not filled, and the ring, walked from its
\* oldest entry, holds exactly the most recent min(stored lines,
\* LOG_MAX_LINES) stored lines in the order they were stored.
C40_RingHoldsNewestInOrder ==
    /\ s_log_head \in 0..(LOG_MAX_LINES - 1)
    /\ s_log_count \in 0..LOG_MAX_LINES
    /\ s_log_count < LOG_MAX_LINES => s_log_head = s_log_count
    /\ s_log_count = (IF Len(stored) < LOG_MAX_LINES THEN Len(stored) ELSE LOG_MAX_LINES)
    /\ \A i \in 0..(s_log_count - 1) :
          s_log_ring[(Oldest + i) % LOG_MAX_LINES] = stored[Len(stored) - s_log_count + 1 + i]

\* The ring has wrapped: more lines were stored than it has slots, and the
\* line of mcp_log_init has been overwritten.
C40_RingWrapped ==
    /\ Len(stored) > LOG_MAX_LINES
    /\ s_log_count = LOG_MAX_LINES
    /\ \A i \in 0..(LOG_MAX_LINES - 1) : s_log_ring[i] # InitEntry

\* The entries sys_get_logs is to return for the arguments of the last
\* call: the newest min(lines, matches) matching entries, oldest first.
Newest(args) ==
    LET m == Matching(args)
        n == IF max_lines(args) < Len(m) THEN max_lines(args) ELSE Len(m)
    IN  SubSeq(m, Len(m) - n + 1, Len(m))

\* C34: sys_get_logs returns, oldest to newest, exactly the newest
\* min(lines, number of matches) entries whose severity is at or above the
\* requested minimum and whose text contains the filter, each with its
\* whole text.
C34_ReturnsNewestMatches ==
    query.ret = "ESP_OK" =>
        query.entries = [i \in 1..Len(Newest(query.args)) |->
                            [call |-> Newest(query.args)[i].call,
                             chars |-> strlen(Newest(query.args)[i].text)]]

\* ------------------------------------------------------------------------
\* Claims about the I2C capability (checked under SpecBus)
\* ------------------------------------------------------------------------

\* The contexts that are inside an i2c binding, between its first access
\* to the bus handle or the device cache and its return.
InBus == {c \in Transports : bus[c].pc # "idle"}

\* C31: the bus handle and the device cache are never in use by two
\* execution contexts at the same time.
C31_BusStateExclusive == Cardinality(InBus) <= 1

\* C33: the device cache holds between 0 and I2C_MAX_DEVICES entries and
\* their addresses are pairwise distinct.
C33_CacheBoundedAndDistinct ==
    /\ i2c_dev_count \in 0..I2C_MAX_DEVICES
    /\ \A i, j \in 0..(I2C_MAX_DEVICES - 1) :
          (i < j /\ j < i2c_dev_count) => i2c_dev_cache[i].addr # i2c_dev_cache[j].addr

====
